---- MODULE Spec2Model ----
(***************************************************************************)
(* book-agents-mvp: the brief -> plan -> draft -> edit pipeline.           *)
(*                                                                         *)
(* Texts are TLA+ strings handled as sequences of characters (Len, SubSeq, *)
(* \o), so that keyword matching, prompt assembly, trimming and the        *)
(* editor's replacements are computed on the characters as the Python      *)
(* code computes them.                                                     *)
(***************************************************************************)
EXTENDS Integers, Sequences, FiniteSets, TLC

VARIABLES
    brief,          \* the brief text supplied by the caller
    project_data,   \* mapping name -> text built by load_project_data
    ollama,         \* the external service: "up" or "down"
    planner,        \* the Planner object's fields
    writer,         \* the Writer object's fields (use_fallback among them)
    pc,             \* position of the running caller
    entry,          \* which caller runs: "cli", "gradio", "unit"
    scene_plan,     \* result of plan_scene
    scene_content,  \* result of write_scene
    final_content,  \* result of edit_scene
    earlier,        \* plan and context of the earlier call, when a call is repeated
    calls,          \* the agent calls of the invocation, with arguments and results
    requests,       \* HTTP requests sent to the service by the last write_scene
    service,        \* how the service behaved during the last write_scene
    write_state,    \* how the last write_scene ended: "none", "returned", "raised"
    prior_failure,  \* an earlier write_scene on this Writer ended on fallback content
    up_at_write,    \* the service's state when the last write_scene was called
    returned        \* what the caller's invocation returned

vars == <<brief, project_data, ollama, planner, writer, pc, entry, scene_plan,
          scene_content, final_content, earlier, calls, requests, service,
          write_state, prior_failure, up_at_write, returned>>

-----------------------------------------------------------------------------
(* Bounds *)

\* Longest brief, in vocabulary words, of the generated briefs.
MaxWords == 2

\* Longest generated draft, in characters.
MaxLen == 6

\* Longest generated draft, in sentences and separators.
MaxPhrases == 3

\* Most calls made on one set of agents.
MaxCalls == 3

-----------------------------------------------------------------------------
(* Python str primitives *)

\* kw in s
Contains(s, kw) ==
    \E i \in 1..(Len(s) - Len(kw) + 1) : SubSeq(s, i, i + Len(kw) - 1) = kw

\* s.find(kw, start) with 0-based positions, -1 when absent
Find(s, kw, start) ==
    LET at(i) == SubSeq(s, i, i + Len(kw) - 1) = kw
        range == (start + 1)..(Len(s) - Len(kw) + 1)
    IN  IF \E i \in range : at(i)
        THEN (CHOOSE i \in range : at(i) /\ \A j \in (start + 1)..(i - 1) : ~at(j)) - 1
        ELSE -1

\* s[a:b] with 0 <= a, clamped to the text as Python slices are
Slice(s, a, b) ==
    LET hi == IF b > Len(s) THEN Len(s) ELSE b
    IN  IF a >= hi THEN "" ELSE SubSeq(s, a + 1, hi)

UpperChars == "ABCDEFGHIJKLMNOPQRSTUVWXYZÁÃÇÉÔ"

LowerChars == "abcdefghijklmnopqrstuvwxyzáãçéô"

LowerChar(c) ==
    LET k == Find(UpperChars, c, 0)
    IN  IF k = -1 THEN c ELSE SubSeq(LowerChars, k + 1, k + 1)

RECURSIVE Lower(_)
\* s.lower(), character by character (halving keeps the recursion shallow)
Lower(s) ==
    IF Len(s) = 0 THEN ""
    ELSE IF Len(s) = 1 THEN LowerChar(s)
    ELSE Lower(SubSeq(s, 1, Len(s) \div 2))
         \o Lower(SubSeq(s, Len(s) \div 2 + 1, Len(s)))

IsSpace(c) == c \in {" ", "\n", "\t", "\r"}

\* s.strip()
Strip(s) ==
    LET blank(i) == IsSpace(SubSeq(s, i, i))
        n == Len(s)
    IN  IF \A i \in 1..n : blank(i) THEN ""
        ELSE SubSeq(s,
                    CHOOSE i \in 1..n : ~blank(i) /\ \A j \in 1..(i - 1) : blank(j),
                    CHOOSE i \in 1..n : ~blank(i) /\ \A j \in (i + 1)..n : blank(j))

RECURSIVE Join(_, _)
\* sep.join(parts)
Join(parts, sep) ==
    IF Len(parts) = 0 THEN ""
    ELSE IF Len(parts) = 1 THEN parts[1]
    ELSE parts[1] \o sep \o Join(Tail(parts), sep)

RECURSIVE Replace(_, _, _)
\* s.replace(old, new): left to right, non-overlapping
Replace(s, old, new) ==
    LET k == Find(s, old, 0)
    IN  IF k = -1 THEN s
        ELSE SubSeq(s, 1, k) \o new
             \o Replace(SubSeq(s, k + Len(old) + 1, Len(s)), old, new)

RECURSIVE Split(_, _)
\* s.split(sep)
Split(s, sep) ==
    LET k == Find(s, sep, 0)
    IN  IF k = -1 THEN <<s>>
        ELSE <<SubSeq(s, 1, k)>> \o Split(SubSeq(s, k + Len(sep) + 1, Len(s)), sep)

\* d.get(key, '')
Get(d, key) == IF key \in DOMAIN d THEN d[key] ELSE ""

\* x in list
InList(x, list) == \E i \in 1..Len(list) : list[i] = x

\* x or default, on strings
Or(x, default) == IF x = "" THEN default ELSE x

-----------------------------------------------------------------------------
(* agents/planner.py *)

\* Planner.__init__
Planner(data) ==
    [project_data |-> data,
     style_guide  |-> Get(data, "style_guide"),
     characters   |-> Get(data, "characters"),
     world        |-> Get(data, "world"),
     timeline     |-> Get(data, "timeline")]

\* _extract_elements with the first two mood rules exchanged
extract_elements_suspense_first(text) ==
    LET brief_lower == Lower(text)
        has(kw) == Contains(brief_lower, kw)
    IN  [characters |->
            (IF has("ivana") THEN <<"Ivana">> ELSE <<>>)
            \o (IF has("dr. manoel") \/ has("manoel") \/ has("dr manoel")
                THEN <<"Dr. Manoel">> ELSE <<>>)
            \o (IF has("pai") /\ has("filha") THEN <<"Pai", "Filha">> ELSE <<>>),
         setting |->
            IF has("masp") THEN "MASP - Museu de Arte de São Paulo"
            ELSE IF has("biblioteca") THEN "Biblioteca antiga"
            ELSE IF has("café") THEN "Café em São Paulo"
            ELSE IF has("metrô") \/ has("metro") THEN "Estação de metrô"
            ELSE "",
         mood |->
            IF has("suspense") THEN "suspense"
            ELSE IF has("tenso") THEN "tenso"
            ELSE IF has("emotivo") THEN "emotivo"
            ELSE IF has("ação") \/ has("acao") THEN "ação"
            ELSE "",
         conflict_type |->
            IF has("encontro") THEN "encontro/confronto"
            ELSE IF has("discussão") \/ has("discutindo") THEN "discussão"
            ELSE IF has("diálogo") \/ has("dialogo") THEN "diálogo"
            ELSE "",
         time_period |->
            IF has("noite") THEN "noite"
            ELSE IF has("dia") THEN "dia"
            ELSE IF has("tarde") THEN "tarde"
            ELSE IF has("manhã") \/ has("manha") THEN "manhã"
            ELSE "",
         weather |->
            IF has("chuvosa") \/ has("chuva") THEN "chuva"
            ELSE IF has("sol") \/ has("ensolarado") THEN "sol"
            ELSE "",
         action |->
            IF has("rush") \/ has("lotado") THEN "movimento intenso"
            ELSE IF has("vazio") \/ has("silencioso") THEN "ambiente calmo"
            ELSE ""]

\* Planner._extract_elements
extract_elements(text) ==
    LET brief_lower == Lower(text)
        has(kw) == Contains(brief_lower, kw)
    IN  [characters |->
            (IF has("ivana") THEN <<"Ivana">> ELSE <<>>)
            \o (IF has("dr. manoel") \/ has("manoel") \/ has("dr manoel")
                THEN <<"Dr. Manoel">> ELSE <<>>)
            \o (IF has("pai") /\ has("filha") THEN <<"Pai", "Filha">> ELSE <<>>),
         setting |->
            IF has("masp") THEN "MASP - Museu de Arte de São Paulo"
            ELSE IF has("biblioteca") THEN "Biblioteca antiga"
            ELSE IF has("café") THEN "Café em São Paulo"
            ELSE IF has("metrô") \/ has("metro") THEN "Estação de metrô"
            ELSE "",
         mood |->
            IF has("tenso") THEN "tenso"
            ELSE IF has("suspense") THEN "suspense"
            ELSE IF has("emotivo") THEN "emotivo"
            ELSE IF has("ação") \/ has("acao") THEN "ação"
            ELSE "",
         conflict_type |->
            IF has("encontro") THEN "encontro/confronto"
            ELSE IF has("discussão") \/ has("discutindo") THEN "discussão"
            ELSE IF has("diálogo") \/ has("dialogo") THEN "diálogo"
            ELSE "",
         time_period |->
            IF has("noite") THEN "noite"
            ELSE IF has("dia") THEN "dia"
            ELSE IF has("tarde") THEN "tarde"
            ELSE IF has("manhã") \/ has("manha") THEN "manhã"
            ELSE "",
         weather |->
            IF has("chuvosa") \/ has("chuva") THEN "chuva"
            ELSE IF has("sol") \/ has("ensolarado") THEN "sol"
            ELSE "",
         action |->
            IF has("rush") \/ has("lotado") THEN "movimento intenso"
            ELSE IF has("vazio") \/ has("silencioso") THEN "ambiente calmo"
            ELSE ""]

\* The four six-step outlines of the narrative-progression block.
OutlineTenseRain ==
    <<"1. **Abertura atmosférica**: Estabelecer ambiente tenso com chuva",
      "2. **Chegada dos personagens**: Entrada gradual, criando expectativa",
      "3. **Confronto inicial**: Primeiras palavras carregadas de tensão",
      "4. **Escalada da tensão**: Revelações e posicionamentos",
      "5. **Clímax do encontro**: Momento de maior intensidade",
      "6. **Resolução/gancho**: Desfecho que mantém suspense">>

OutlineEmotional ==
    <<"1. **Ambientação emotiva**: Estabelecer cenário íntimo",
      "2. **Encontro dos personagens**: Aproximação gradual",
      "3. **Abertura emocional**: Primeiras palavras sinceras",
      "4. **Desenvolvimento**: Aprofundamento da conversa",
      "5. **Clímax emocional**: Momento de maior vulnerabilidade",
      "6. **Resolução**: Conexão ou separação definitiva">>

OutlineAction ==
    <<"1. **Setup dinâmico**: Estabelecer ambiente de movimento",
      "2. **Incidente inicial**: Evento que desencadeia a ação",
      "3. **Escalada**: Intensificação da situação",
      "4. **Complicações**: Obstáculos e desafios",
      "5. **Clímax de ação**: Momento de maior intensidade",
      "6. **Resolução**: Consequências e desfecho">>

OutlineGeneric ==
    <<"1. **Abertura**: Estabelecer cenário e atmosfera",
      "2. **Desenvolvimento**: Introdução dos personagens",
      "3. **Conflito**: Tensão ou situação central",
      "4. **Desenvolvimento**: Aprofundamento da situação",
      "5. **Clímax**: Momento decisivo",
      "6. **Resolução**: Desfecho da cena">>

\* Pacing/device guidance of the technical-notes block.
NotesTense ==
    <<"- **Ritmo**: Lento e deliberado, construindo tensão",
      "- **Recursos**: Descrição sensorial, silêncios significativos">>

NotesAction ==
    <<"- **Ritmo**: Rápido e dinâmico",
      "- **Recursos**: Frases curtas, verbos de ação">>

NotesEmotional ==
    <<"- **Ritmo**: Pausado e reflexivo",
      "- **Recursos**: Introspecção, detalhes emotivos">>

NotesGeneric ==
    <<"- **Ritmo**: Equilibrado",
      "- **Recursos**: Descrição equilibrada">>

DialogueLine == "- **Diálogos**: Naturais e adequados ao tom da cena"

\* setting_block printing a movement entry with a placeholder of its own
setting_block_movement_placeholder(elements, text) ==
    <<"## ESTRUTURA DA CENA",
      "\n**Brief Original:** " \o text,
      "\n### 1. AMBIENTAÇÃO",
      "- **Local**: " \o Or(elements.setting, "Local a definir"),
      "- **Período**: " \o Or(elements.time_period, "Período a definir"),
      "- **Clima**: " \o Or(elements.weather, "Clima neutro"),
      "- **Atmosfera**: " \o Or(elements.mood, "Atmosfera neutra"),
      "- **Movimento**: " \o Or(elements.action, "Movimento a definir")>>

\* _create_scene_structure, scene setup: header and setting block
setting_block(elements, text) ==
    <<"## ESTRUTURA DA CENA",
      "\n**Brief Original:** " \o text,
      "\n### 1. AMBIENTAÇÃO",
      "- **Local**: " \o Or(elements.setting, "Local a definir"),
      "- **Período**: " \o Or(elements.time_period, "Período a definir"),
      "- **Clima**: " \o Or(elements.weather, "Clima neutro"),
      "- **Atmosfera**: " \o Or(elements.mood, "Atmosfera neutra")>>
    \o (IF elements.action # ""
        THEN <<"- **Movimento**: " \o elements.action>> ELSE <<>>)

\* _create_scene_structure, character block
character_block(elements) ==
    <<"\n### 2. PERSONAGENS">>
    \o (IF elements.characters # <<>>
        THEN [i \in 1..Len(elements.characters) |-> "- " \o elements.characters[i]]
        ELSE <<"- Personagens a definir">>)

\* progression_block choosing the tense outline on the mood alone
progression_block_ignoring_weather(elements) ==
    <<"\n### 3. PROGRESSÃO NARRATIVA">>
    \o (IF elements.mood = "tenso" THEN OutlineTenseRain
        ELSE IF elements.mood = "emotivo" THEN OutlineEmotional
        ELSE IF elements.mood = "ação" THEN OutlineAction
        ELSE OutlineGeneric)

\* _create_scene_structure, narrative-progression block
progression_block(elements) ==
    <<"\n### 3. PROGRESSÃO NARRATIVA">>
    \o (IF elements.mood = "tenso" /\ elements.weather = "chuva" THEN OutlineTenseRain
        ELSE IF elements.mood = "emotivo" THEN OutlineEmotional
        ELSE IF elements.mood = "ação" THEN OutlineAction
        ELSE OutlineGeneric)

\* technical_block giving the tense guidance only when it also rains
technical_block_weather_dependent(elements) ==
    <<"\n### 4. ELEMENTOS TÉCNICOS",
      "- **Foco narrativo**: Terceira pessoa onisciente">>
    \o (IF elements.mood = "tenso" /\ elements.weather = "chuva" THEN NotesTense
        ELSE IF elements.mood = "ação" THEN NotesAction
        ELSE IF elements.mood = "emotivo" THEN NotesEmotional
        ELSE NotesGeneric)
    \o <<DialogueLine>>

\* _create_scene_structure, technical-notes block
technical_block(elements) ==
    <<"\n### 4. ELEMENTOS TÉCNICOS",
      "- **Foco narrativo**: Terceira pessoa onisciente">>
    \o (IF elements.mood = "tenso" THEN NotesTense
        ELSE IF elements.mood = "ação" THEN NotesAction
        ELSE IF elements.mood = "emotivo" THEN NotesEmotional
        ELSE NotesGeneric)
    \o <<DialogueLine>>

\* The list plan_parts that _create_scene_structure joins.
plan_parts(elements, text) ==
    setting_block(elements, text) \o character_block(elements)
    \o progression_block(elements) \o technical_block(elements)

\* Planner._create_scene_structure
create_scene_structure(elements, text) == Join(plan_parts(elements, text), "\n")

\* plan_scene quoting the Planner's style guide in the plan
plan_scene_quoting_style_guide(self, text) ==
    create_scene_structure(extract_elements(text), text)
    \o (IF self.style_guide # "" THEN "\n- **Estilo**: " \o self.style_guide ELSE "")

\* Planner.plan_scene
plan_scene(self, text) == create_scene_structure(extract_elements(text), text)

-----------------------------------------------------------------------------
(* engine/llm.py *)

\* LLMEngine.__init__: the configured model name, default 'llama3.1'
LLMEngine == [base_url |-> "http://localhost:11434", model |-> "llama3.1"]

\* LLMEngine.is_available: GET /api/tags answers 200
is_available(up) == up = "up"

\* LLMEngine._fallback_response
fallback_response(self, prompt) ==
    LET marker == "BRIEF DA CENA:"
        brief_start == Find(prompt, marker, 0) + Len(marker)
        found_end == Find(prompt, "\n\n", brief_start)
        brief_end == IF found_end = -1 THEN brief_start + 200 ELSE found_end
        about == IF Contains(prompt, marker)
                 THEN Strip(Slice(prompt, brief_start, brief_end))
                 ELSE "cena não especificada"
    IN  "[Gerado com fallback - Ollama indisponível]\n\n**Cena baseada no brief:** "
        \o about
        \o "\n\nO ambiente estava carregado de expectativa. A atmosfera densa prenunciava que algo importante estava prestes a acontecer.\n\nOs personagens se encontraram no local combinado, cada um trazendo suas próprias motivações e segredos. Havia uma tensão palpável no ar, como se as palavras não ditas pesassem mais do que aquelas que seriam pronunciadas.\n\n\"Precisamos conversar,\" disse uma voz, quebrando o silêncio.\n\n\"Eu sei,\" veio a resposta, carregada de significado.\n\nO diálogo que se seguiu revelou camadas de complexidade que nenhum dos dois havia antecipado. Cada palavra trocada os aproximava mais de uma verdade que ambos temiam e desejavam ao mesmo tempo.\n\nQuando o encontro chegou ao fim, ambos sabiam que nada seria como antes. As decisões tomadas naquele momento ecoariam por muito tempo, moldando o futuro de maneiras que ainda não conseguiam compreender completamente.\n\n*[Nota: Para obter conteúdo gerado por IA, certifique-se de que o Ollama está rodando e o modelo "
        \o self.model
        \o " está disponível]*"

\* LLMEngine._ensure_model_loaded: [ok, sent] under the service behaviour svc
ensure_model_loaded(self, svc) ==
    IF svc.tags # "ok"
    THEN [ok |-> FALSE, sent |-> <<"GET /api/tags">>]
    ELSE IF ~(\E i \in 1..Len(svc.models) : Contains(svc.models[i], self.model))
    THEN [ok |-> FALSE, sent |-> <<"GET /api/tags">>]
    ELSE [ok |-> svc.warmup = "ok",
          sent |-> <<"GET /api/tags", "POST /api/generate warmup">>]

\* generate returning whatever text a 200 answer carries and letting a malformed
\* answer's exception through
generate_unguarded(self, prompt, svc) ==
    LET loaded == ensure_model_loaded(self, svc)
        generated_text == Strip(svc.response)
    IN  IF ~loaded.ok
        THEN [text |-> fallback_response(self, prompt), sent |-> loaded.sent,
              raised |-> FALSE]
        ELSE [text |-> IF svc.generate = "ok" THEN generated_text
                       ELSE IF svc.generate = "malformed" THEN ""
                       ELSE fallback_response(self, prompt),
              sent |-> loaded.sent \o <<"POST /api/generate">>,
              raised |-> svc.generate = "malformed"]

\* generate sending the prompt a second time when the first answer is unusable
generate_retrying(self, prompt, svc) ==
    LET loaded == ensure_model_loaded(self, svc)
        generated_text == Strip(svc.response)
        usable == svc.generate = "ok" /\ generated_text # "" /\ Len(generated_text) > 50
    IN  IF ~loaded.ok
        THEN [text |-> fallback_response(self, prompt), sent |-> loaded.sent,
              raised |-> FALSE]
        ELSE [text |-> IF usable THEN generated_text ELSE fallback_response(self, prompt),
              sent |-> loaded.sent \o (IF usable THEN <<"POST /api/generate">>
                                       ELSE <<"POST /api/generate", "POST /api/generate">>),
              raised |-> FALSE]

\* LLMEngine.generate: [text, sent, raised] under the service behaviour svc; every
\* exception of the request (timeout, refused, malformed answer) is caught
generate(self, prompt, svc) ==
    LET loaded == ensure_model_loaded(self, svc)
        generated_text == Strip(svc.response)
    IN  IF ~loaded.ok
        THEN [text |-> fallback_response(self, prompt), sent |-> loaded.sent,
              raised |-> FALSE]
        ELSE [text |-> IF svc.generate = "ok" /\ generated_text # ""
                          /\ Len(generated_text) > 50
                       THEN generated_text
                       ELSE fallback_response(self, prompt),
              sent |-> loaded.sent \o <<"POST /api/generate">>,
              raised |-> FALSE]

-----------------------------------------------------------------------------
(* agents/writer.py *)

\* Writer.__init__, with the answer of llm.is_available()
Writer(data, available) ==
    [project_data |-> data,
     style_guide  |-> Get(data, "style_guide"),
     characters   |-> Get(data, "characters"),
     world        |-> Get(data, "world"),
     timeline     |-> Get(data, "timeline"),
     llm          |-> LLMEngine,
     use_fallback |-> ~available]

\* _analyze_brief with the character rules chained, the first match winning
analyze_brief_exclusive_characters(text) ==
    LET brief_lower == Lower(text)
        has(kw) == Contains(brief_lower, kw)
    IN  [setting |->
            IF has("masp") THEN "MASP (Museu de Arte de São Paulo)"
            ELSE IF has("biblioteca") THEN "biblioteca antiga"
            ELSE IF has("café") THEN "café movimentado"
            ELSE IF has("metrô") \/ has("metro") THEN "estação de metrô"
            ELSE "",
         characters |->
            IF has("ivana") THEN <<"Ivana">>
            ELSE IF has("dr. manoel") \/ has("manoel") \/ has("dr manoel")
            THEN <<"Dr. Manoel">>
            ELSE IF has("pai") /\ has("filha") THEN <<"pai", "filha">>
            ELSE <<>>,
         mood |->
            IF has("tenso") THEN "tenso"
            ELSE IF has("suspense") THEN "suspense"
            ELSE IF has("emotivo") THEN "emotivo"
            ELSE IF has("ação") \/ has("acao") THEN "ação"
            ELSE "",
         time |->
            IF has("noite") THEN "noite"
            ELSE IF has("dia") THEN "dia"
            ELSE IF has("tarde") THEN "tarde"
            ELSE IF has("manhã") \/ has("manha") THEN "manhã"
            ELSE "",
         weather |->
            IF has("chuvosa") \/ has("chuva") THEN "chuva"
            ELSE IF has("sol") THEN "sol"
            ELSE "",
         action |->
            IF has("encontro") THEN "encontro"
            ELSE IF has("discussão") \/ has("discutindo") THEN "discussão"
            ELSE IF has("diálogo") \/ has("dialogo") THEN "diálogo"
            ELSE IF has("rush") \/ has("lotado") THEN "movimento intenso"
            ELSE ""]

\* Writer._analyze_brief
analyze_brief(text) ==
    LET brief_lower == Lower(text)
        has(kw) == Contains(brief_lower, kw)
    IN  [setting |->
            IF has("masp") THEN "MASP (Museu de Arte de São Paulo)"
            ELSE IF has("biblioteca") THEN "biblioteca antiga"
            ELSE IF has("café") THEN "café movimentado"
            ELSE IF has("metrô") \/ has("metro") THEN "estação de metrô"
            ELSE "",
         characters |->
            (IF has("ivana") THEN <<"Ivana">> ELSE <<>>)
            \o (IF has("dr. manoel") \/ has("manoel") \/ has("dr manoel")
                THEN <<"Dr. Manoel">> ELSE <<>>)
            \o (IF has("pai") /\ has("filha") THEN <<"pai", "filha">> ELSE <<>>),
         mood |->
            IF has("tenso") THEN "tenso"
            ELSE IF has("suspense") THEN "suspense"
            ELSE IF has("emotivo") THEN "emotivo"
            ELSE IF has("ação") \/ has("acao") THEN "ação"
            ELSE "",
         time |->
            IF has("noite") THEN "noite"
            ELSE IF has("dia") THEN "dia"
            ELSE IF has("tarde") THEN "tarde"
            ELSE IF has("manhã") \/ has("manha") THEN "manhã"
            ELSE "",
         weather |->
            IF has("chuvosa") \/ has("chuva") THEN "chuva"
            ELSE IF has("sol") THEN "sol"
            ELSE "",
         action |->
            IF has("encontro") THEN "encontro"
            ELSE IF has("discussão") \/ has("discutindo") THEN "discussão"
            ELSE IF has("diálogo") \/ has("dialogo") THEN "diálogo"
            ELSE IF has("rush") \/ has("lotado") THEN "movimento intenso"
            ELSE ""]

\* The opening fragments of _generate_scene_content.
OpeningMaspRain ==
    "A chuva tamborilava contra as grandes janelas do MASP, criando um ritmo hipnótico que ecoava pelos corredores vazios do museu. As luzes da Paulista se difundiam através das gotas d'água, pintando sombras dançantes nas paredes brancas."

OpeningRain(setting) ==
    "A chuva caía pesadamente sobre a cidade, criando uma cortina de água que transformava "
    \o setting
    \o " em um refúgio isolado do mundo exterior."

OpeningMasp ==
    "O MASP se erguia majestoso na Paulista, suas linhas modernas contrastando com o movimento constante da avenida. No interior, o silêncio era quebrado apenas pelos passos ecoando no piso de concreto polido."

OpeningCafe ==
    "O café fervilhava de atividade, o aroma intenso misturando-se às conversas sobrepostas e ao tinir constante de xícaras e pratos."

OpeningLibrary ==
    "A biblioteca antiga exalava o cheiro característico de livros velhos e madeira envelhecida. A luz filtrada pelas janelas altas criava um ambiente solene e contemplativo."

OpeningSubway ==
    "A estação de metrô pulsava com o movimento incessante de pessoas. O som dos trens chegando e partindo criava uma sinfonia urbana constante."

OpeningGeneric ==
    "O ambiente estava carregado de expectativa, como se algo importante estivesse prestes a acontecer."

\* The character-interaction fragments.
ExchangeIvanaManoel ==
    <<"\nIvana chegou primeiro, seus passos ecoando no espaço. Dr. Manoel apareceu momentos depois, o semblante grave.",
      "\n\"Você veio,\" disse Ivana.",
      "\n\"Tinha que vir,\" respondeu Dr. Manoel. \"Precisamos resolver isso.\"",
      "\nO silêncio se estendeu entre eles, carregado de tensão.",
      "\n\"Então você sabe a verdade,\" ela disse.",
      "\n\"Sei mais do que você imagina,\" ele respondeu, dando um passo à frente.">>

VignetteFatherDaughter ==
    <<"\nO pai chegou pontualmente, como sempre. Sua filha já estava lá, mexendo nervosamente no celular, evitando o olhar direto que sabia que viria.",
      "\nQuando seus olhos finalmente se encontraram, ambos souberam que aquela conversa não poderia ser adiada por mais tempo.">>

InteractionGeneric ==
    "\nOs personagens se encontraram, cada um carregando suas próprias intenções. A conversa que se seguiu revelaria verdades há muito escondidas."

\* The closing fragments.
ClosingRain ==
    "\nLá fora, a chuva continuava caindo, mas algo havia mudado entre eles. O que aconteceria a seguir dependeria das escolhas que cada um faria."

ClosingTense ==
    "\nO encontro chegava ao fim, mas as questões levantadas ecoariam por muito tempo. Algumas palavras, uma vez ditas, não podem ser desfeitas."

ClosingGeneric ==
    "\nQuando se separaram, ambos sabiam que nada seria como antes. As palavras trocadas ecoariam por muito tempo."

\* The opening chosen by the setting before the weather is looked at
opening_setting_first(elements) ==
    IF elements.setting # ""
    THEN IF Contains(elements.setting, "MASP") THEN <<OpeningMasp>>
         ELSE IF Contains(elements.setting, "café") THEN <<OpeningCafe>>
         ELSE IF Contains(elements.setting, "biblioteca") THEN <<OpeningLibrary>>
         ELSE IF Contains(elements.setting, "metrô") THEN <<OpeningSubway>>
         ELSE <<>>
    ELSE IF elements.weather = "chuva" THEN <<OpeningRain(elements.setting)>>
    ELSE <<OpeningGeneric>>

\* _generate_scene_content, atmospheric opening
opening(elements) ==
    IF elements.weather = "chuva" /\ Contains(elements.setting, "MASP")
    THEN <<OpeningMaspRain>>
    ELSE IF elements.weather = "chuva" THEN <<OpeningRain(elements.setting)>>
    ELSE IF elements.setting # ""
    THEN IF Contains(elements.setting, "MASP") THEN <<OpeningMasp>>
         ELSE IF Contains(elements.setting, "café") THEN <<OpeningCafe>>
         ELSE IF Contains(elements.setting, "biblioteca") THEN <<OpeningLibrary>>
         ELSE IF Contains(elements.setting, "metrô") THEN <<OpeningSubway>>
         ELSE <<>>
    ELSE <<OpeningGeneric>>

\* _generate_scene_content, character interactions
interaction(elements) ==
    IF InList("Ivana", elements.characters) /\ InList("Dr. Manoel", elements.characters)
    THEN ExchangeIvanaManoel
    ELSE IF InList("pai", elements.characters) /\ InList("filha", elements.characters)
    THEN VignetteFatherDaughter
    ELSE <<InteractionGeneric>>

\* closing with the mood tested before the weather
closing_tense_first(elements) ==
    IF elements.mood = "tenso" THEN <<ClosingTense>>
    ELSE IF elements.weather = "chuva" THEN <<ClosingRain>>
    ELSE <<ClosingGeneric>>

\* _generate_scene_content, closing
closing(elements) ==
    IF elements.weather = "chuva" THEN <<ClosingRain>>
    ELSE IF elements.mood = "tenso" THEN <<ClosingTense>>
    ELSE <<ClosingGeneric>>

\* _generate_scene_content ending the text with the brief it was given
generate_scene_content_echoing_brief(elements, plan, text) ==
    Join(opening(elements) \o interaction(elements) \o closing(elements)
             \o <<"\n(" \o text \o ")">>, "\n")

\* Writer._generate_scene_content
generate_scene_content(elements, plan, text) ==
    Join(opening(elements) \o interaction(elements) \o closing(elements), "\n")

\* _write_scene_fallback giving no text for a blank brief
write_scene_fallback_blank_for_blank(self, text, plan) ==
    IF Strip(text) = "" THEN ""
    ELSE generate_scene_content(analyze_brief(text), plan, text)

\* Writer._write_scene_fallback
write_scene_fallback(self, text, plan) ==
    generate_scene_content(analyze_brief(text), plan, text)

\* _write_scene_ai, the context built from the project data
prompt_context(self) ==
    Join((IF self.style_guide # ""
          THEN <<"GUIA DE ESTILO:\n" \o self.style_guide>> ELSE <<>>)
         \o (IF self.characters # ""
             THEN <<"PERSONAGENS:\n" \o self.characters>> ELSE <<>>)
         \o (IF self.world # ""
             THEN <<"MUNDO/CENÁRIO:\n" \o self.world>> ELSE <<>>),
         "\n\n")

\* _write_scene_ai, the prompt
build_prompt(self, text, plan) ==
    "Você é um escritor profissional especializado em narrativa literária. Sua tarefa é escrever uma cena baseada no brief e plano fornecidos.\n\n"
    \o prompt_context(self)
    \o "\n\nBRIEF DA CENA:\n"
    \o text
    \o "\n\nPLANO ESTRUTURAL:\n"
    \o plan
    \o "\n\nINSTRUÇÕES:\n- Escreva uma cena narrativa completa e envolvente\n- Use terceira pessoa onisciente\n- Inclua descrições sensoriais detalhadas\n- Desenvolva diálogos naturais e significativos\n- Mantenha consistência com o estilo e personagens\n- A cena deve ter entre 300-600 palavras\n- Use linguagem literária em português brasileiro\n\nCENA:"

\* Minimum length of an accepted generation, in characters.
MinContentLen == 50

\* Writer._write_scene_ai: [content, sent, raised] under the service behaviour
\* svc; an exception of generate() is caught and answered with the fallback
write_scene_ai(self, text, plan, svc) ==
    LET got == generate(self.llm, build_prompt(self, text, plan), svc)
        content == Strip(got.text)
    IN  [content |-> IF got.raised \/ content = "" \/ Len(content) < MinContentLen
                     THEN write_scene_fallback(self, text, plan)
                     ELSE content,
         sent |-> got.sent,
         raised |-> FALSE]

\* write_scene probing the service on every call instead of reading use_fallback
write_scene_rechecking(self, text, plan, svc) ==
    IF svc.tags # "ok"
    THEN [content |-> write_scene_fallback(self, text, plan), sent |-> <<"GET /api/tags">>,
          raised |-> FALSE]
    ELSE write_scene_ai(self, text, plan, svc)

\* write_scene without the fallback mode: an unavailable service is an error
write_scene_without_fallback_mode(self, text, plan, svc) ==
    IF self.use_fallback
    THEN [content |-> "", sent |-> <<>>, raised |-> TRUE]
    ELSE write_scene_ai(self, text, plan, svc)

\* Writer.write_scene: [content, sent, raised] under the service behaviour svc
write_scene(self, text, plan, svc) ==
    IF self.use_fallback
    THEN [content |-> write_scene_fallback(self, text, plan), sent |-> <<>>,
          raised |-> FALSE]
    ELSE write_scene_ai(self, text, plan, svc)

-----------------------------------------------------------------------------
(* agents/editor.py *)

\* Editor.__init__
Editor(data) ==
    [project_data |-> data,
     style_guide  |-> Get(data, "style_guide"),
     characters   |-> Get(data, "characters"),
     world        |-> Get(data, "world"),
     timeline     |-> Get(data, "timeline")]

\* Editor._apply_style_corrections: the four replacements, in the dict's order
apply_style_corrections(content) ==
    Replace(Replace(Replace(Replace(content, " ,", ","), " .", "."), "  ", " "),
            "\n\n\n", "\n\n")

\* Editor._enhance_paragraph: the second replacement starts again from paragraph
enhance_paragraph(paragraph) ==
    LET rain == IF Contains(Lower(paragraph), "chuva")
                   /\ Contains(Lower(paragraph), "tamborilava")
                THEN Replace(paragraph,
                             "tamborilava contra as grandes janelas",
                             "tamborilava incessantemente contra as grandes janelas de vidro")
                ELSE paragraph
    IN  IF Contains(paragraph, "Dr. Manoel") /\ Contains(paragraph, "silhueta")
        THEN Replace(paragraph,
                     "a silhueta familiar de Dr. Manoel",
                     "a silhueta inconfundível de Dr. Manoel")
        ELSE rain

\* Editor._enhance_prose
enhance_prose(content) ==
    LET paragraphs == Split(content, "\n\n")
        kept == SelectSeq(paragraphs, LAMBDA para : Strip(para) # "")
    IN  Join([i \in 1..Len(kept) |-> enhance_paragraph(kept[i])], "\n\n")

RECURSIVE CollapseBlankLines(_)
\* re.sub(r'\n\n\n+', '\n\n', s)
CollapseBlankLines(s) ==
    LET k == Find(s, "\n\n\n", 0)
        newline(i) == SubSeq(s, i, i) = "\n"
        next == IF \A i \in (k + 1)..Len(s) : newline(i) THEN Len(s) + 1
                ELSE CHOOSE i \in (k + 1)..Len(s) :
                        ~newline(i) /\ \A j \in (k + 1)..(i - 1) : newline(j)
    IN  IF k = -1 THEN s
        ELSE SubSeq(s, 1, k) \o "\n\n" \o CollapseBlankLines(SubSeq(s, next, Len(s)))

\* _add_final_formatting without the final strip()
add_final_formatting_unstripped(content) == CollapseBlankLines(content)

\* Editor._add_final_formatting: the first re.sub rewrites each match as itself
add_final_formatting(content) == Strip(CollapseBlankLines(content))

\* _final_polish making a paragraph of every line
final_polish_spacing_lines(content) ==
    LET lines == Split(content, "\n")
        polished_lines == [i \in 1..Len(lines) |-> lines[i]]
    IN  add_final_formatting(Join(polished_lines, "\n\n"))

\* Editor._final_polish: dialogue and narrative lines are both appended unchanged
final_polish(content) ==
    LET lines == Split(content, "\n")
        polished_lines == [i \in 1..Len(lines) |-> lines[i]]
    IN  add_final_formatting(Join(polished_lines, "\n"))

\* Editor.edit_scene
edit_scene(self, content, text, plan) ==
    final_polish(enhance_prose(apply_style_corrections(content)))

-----------------------------------------------------------------------------
(* Inputs *)

\* Words the generated briefs are made of: keywords of every feature dimension.
Vocabulary ==
    {"MASP", "biblioteca", "café", "metrô", "tenso", "suspense", "emotivo", "ação",
     "chuva", "sol", "noite", "Ivana", "Manoel", "pai e filha", "lotado"}

\* The briefs of the repository's examples and tests, and the boundary briefs.
ScenarioBriefs ==
    {"Escreva um encontro tenso no MASP entre Ivana e Dr. Manoel, noite chuvosa.",
     "Crie uma cena de suspense em uma biblioteca antiga...",
     "Pai e filha discutindo no café, tarde de sol",
     "chuva",
     "   ",
     ""}

\* Every brief of at most MaxWords vocabulary words, joined by spaces.
Briefs ==
    ScenarioBriefs
    \cup {Join(ws, " ") : ws \in UNION {[1..n -> Vocabulary] : n \in 0..MaxWords}}

\* What load_project_data may find on disk.
ProjectDatas ==
    {<<>>,
     [style_guide |-> "Frases curtas. Tom sóbrio."],
     [style_guide |-> "Narrador onisciente.", characters |-> "Ivana: restauradora.",
      world |-> "São Paulo, avenida Paulista."]}

\* Texts the service may answer with.
Responses ==
    {"", " \n ", "Era noite.",
     "A noite caiu sobre a avenida e ninguém falou nad.",
     "A noite caiu sobre a avenida e ninguém falou nada.",
     "A noite caiu sobre a avenida e ninguém falou nada!.",
     "  \nIvana atravessou o vão livre do museu sem olhar para trás, contando os passos até a escada.\n\n"}

\* A service behaviour: how each request of one generate() call is answered.
Behaviour(tags, models, warmup, gen, response) ==
    [tags |-> tags, models |-> models, warmup |-> warmup, generate |-> gen,
     response |-> response]

Loaded == <<"llama3.1:latest">>

Behaviours ==
    {Behaviour(t, Loaded, "ok", "ok", "") : t \in {"refused", "error"}}
    \cup {Behaviour("ok", <<"mistral:7b">>, "ok", "ok", "")}
    \cup {Behaviour("ok", Loaded, w, "ok", "") : w \in {"error", "timeout"}}
    \cup {Behaviour("ok", Loaded, "ok", g, "") :
             g \in {"timeout", "refused", "error", "malformed"}}
    \cup {Behaviour("ok", Loaded, "ok", "ok", r) : r \in Responses}

\* No service interaction took place.
NoService == Behaviour("none", <<>>, "none", "none", "")

\* The behaviours possible while the service is up or down.
ServiceBehaviours(up) ==
    IF up = "up" THEN Behaviours
    ELSE {Behaviour("refused", Loaded, "ok", "ok", "")}

NoEarlier == [plan |-> "", project_data |-> <<>>]

NoReturn == [status |-> "none", plan |-> "", draft |-> "", final |-> ""]

-----------------------------------------------------------------------------
(* app.py process_brief, gradio_app.py generate_scene *)

\* The arguments the pipeline passes to write_scene and to edit_scene.
write_args == <<brief, scene_plan>>

\* edit_args with the plan and the draft exchanged
edit_args_swapped == <<scene_plan, brief, scene_content>>

edit_args == <<scene_content, brief, scene_plan>>

\* The value the pipeline hands back as final content.
final_result == final_content

Call(op, args, result) == [op |-> op, args |-> args, result |-> result]

\* Whether the last write_scene call ended on fallback or canned content.
LastWriteFailed ==
    /\ write_state # "none"
    /\ scene_content # Strip(service.response)

\* One call writer.write_scene(text, plan) under the service behaviour svc.
WriteSceneCall(text, plan, svc) ==
    \E r \in {write_scene(writer, text, plan, svc)} :
        /\ scene_content' = r.content
        /\ requests' = r.sent
        /\ service' = IF r.sent = <<>> THEN NoService ELSE svc
        /\ write_state' = IF r.raised THEN "raised" ELSE "returned"
        /\ prior_failure' = (prior_failure \/ LastWriteFailed)
        /\ up_at_write' = ollama

TypeOK ==
    /\ ollama \in {"up", "down"}
    /\ pc \in {"idle", "plan", "write", "edit", "save", "done",
              "planned", "rebuilt", "replanned", "drafted", "rebriefed",
              "redrafted", "test_writer", "analyzed", "test_editor", "tested",
              "edited", "corrected", "recorrected", "serving",
              "enhanced", "engine", "generated", "regenerated"}
    /\ entry \in {"none", "cli", "gradio"}
    /\ writer.use_fallback \in BOOLEAN
    /\ write_state \in {"none", "returned", "raised"}
    /\ up_at_write \in {"none", "up", "down"}

Init ==
    /\ brief \in ScenarioBriefs
    /\ project_data \in ProjectDatas
    /\ ollama \in {"up", "down"}
    /\ planner = Planner(project_data)
    /\ writer = Writer(project_data, is_available(ollama))
    /\ pc = "idle"
    /\ entry = "none"
    /\ scene_plan = ""
    /\ scene_content = ""
    /\ final_content = ""
    /\ earlier = NoEarlier
    /\ calls = <<>>
    /\ requests = <<>>
    /\ service = NoService
    /\ write_state = "none"
    /\ prior_failure = FALSE
    /\ up_at_write = "none"
    /\ returned = NoReturn

\* The service comes up.
OllamaStart ==
    /\ ollama = "down"
    /\ ollama' = "up"
    /\ UNCHANGED <<brief, project_data, planner, writer, pc, entry, scene_plan,
                   scene_content, final_content, earlier, calls, requests, service,
                   write_state, prior_failure, up_at_write, returned>>

\* The service goes away.
OllamaStop ==
    /\ ollama = "up"
    /\ ollama' = "down"
    /\ UNCHANGED <<brief, project_data, planner, writer, pc, entry, scene_plan,
                   scene_content, final_content, earlier, calls, requests, service,
                   write_state, prior_failure, up_at_write, returned>>

\* The three agents are constructed afresh for an invocation.
InitializeAgents ==
    /\ planner' = Planner(project_data)
    /\ writer' = Writer(project_data, is_available(ollama))
    /\ scene_plan' = ""
    /\ scene_content' = ""
    /\ final_content' = ""
    /\ calls' = <<>>
    /\ requests' = <<>>
    /\ service' = NoService
    /\ write_state' = "none"
    /\ prior_failure' = FALSE
    /\ up_at_write' = "none"
    /\ returned' = NoReturn

\* process_brief, up to the construction of the agents
process_brief ==
    /\ pc \in {"idle", "done"}
    /\ entry' = "cli"
    /\ pc' = "plan"
    /\ InitializeAgents
    /\ UNCHANGED <<brief, project_data, ollama, earlier>>

\* generate_scene, up to the construction of the agents; a blank brief is refused
generate_scene ==
    /\ pc \in {"idle", "done"}
    /\ entry' = "gradio"
    /\ IF Strip(brief) = ""
       THEN /\ pc' = "done"
            /\ returned' = [status |-> "error", plan |-> "", draft |-> "", final |-> ""]
            /\ calls' = <<>>
            /\ UNCHANGED <<planner, writer, scene_plan, scene_content, final_content,
                           requests, service, write_state, prior_failure, up_at_write>>
       ELSE /\ pc' = "plan"
            /\ InitializeAgents
    /\ UNCHANGED <<brief, project_data, ollama, earlier>>

\* Step 1: planner.plan_scene(brief_text)
StepPlan ==
    /\ pc = "plan"
    /\ scene_plan' = plan_scene(planner, brief)
    /\ calls' = Append(calls, Call("plan_scene", <<brief>>, scene_plan'))
    /\ pc' = "write"
    /\ UNCHANGED <<brief, project_data, ollama, planner, writer, entry, scene_content,
                   final_content, earlier, requests, service, write_state,
                   prior_failure, up_at_write, returned>>

\* Step 2: writer.write_scene(brief_text, scene_plan)
StepWrite ==
    /\ pc = "write"
    /\ \E svc \in ServiceBehaviours(ollama) :
          WriteSceneCall(write_args[1], write_args[2], svc)
    /\ calls' = Append(calls, Call("write_scene", write_args, scene_content'))
    /\ pc' = "edit"
    /\ UNCHANGED <<brief, project_data, ollama, planner, writer, entry, scene_plan,
                   final_content, earlier, returned>>

\* Step 3: editor.edit_scene(scene_content, brief_text, scene_plan)
StepEdit ==
    /\ pc = "edit"
    /\ final_content' = edit_scene(Editor(project_data), edit_args[1], edit_args[2],
                                   edit_args[3])
    /\ calls' = Append(calls, Call("edit_scene", edit_args, final_content'))
    /\ pc' = "save"
    /\ UNCHANGED <<brief, project_data, ollama, planner, writer, entry, scene_plan,
                   scene_content, earlier, requests, service, write_state,
                   prior_failure, up_at_write, returned>>

\* process_brief returns final_content
ReturnCli ==
    /\ pc = "save"
    /\ entry = "cli"
    /\ returned' = [status |-> "ok", plan |-> scene_plan, draft |-> scene_content,
                    final |-> final_result]
    /\ pc' = "done"
    /\ UNCHANGED <<brief, project_data, ollama, planner, writer, entry, scene_plan,
                   scene_content, final_content, earlier, calls, requests, service,
                   write_state, prior_failure, up_at_write>>

\* generate_scene writes the output file and returns its four outputs; a failing
\* write is caught and answered with the error message and empty outputs
ReturnGradio ==
    /\ pc = "save"
    /\ entry = "gradio"
    /\ \E saved, include_plan, include_draft \in BOOLEAN :
          returned' = IF saved
                      THEN [status |-> "ok",
                            plan |-> IF include_plan THEN scene_plan ELSE "",
                            draft |-> IF include_draft THEN scene_content ELSE "",
                            final |-> final_result]
                      ELSE [status |-> "error", plan |-> "", draft |-> "", final |-> ""]
    /\ pc' = "done"
    /\ UNCHANGED <<brief, project_data, ollama, planner, writer, entry, scene_plan,
                   scene_content, final_content, earlier, calls, requests, service,
                   write_state, prior_failure, up_at_write>>

\* writer.write_scene(brief, scene_plan) called directly on a Writer its caller
\* keeps, as the test script does; the pipeline's agents are locals of one
\* invocation and get exactly the one call of step 2.
WriteSceneAgain ==
    /\ pc = "idle"
    /\ \E svc \in ServiceBehaviours(ollama) : WriteSceneCall(brief, scene_plan, svc)
    /\ UNCHANGED <<brief, project_data, ollama, planner, writer, pc, entry, scene_plan,
                   final_content, earlier, calls, returned>>

Next ==
    \/ OllamaStart
    \/ OllamaStop
    \/ process_brief
    \/ generate_scene
    \/ StepPlan
    \/ StepWrite
    \/ StepEdit
    \/ ReturnCli
    \/ ReturnGradio
    \/ WriteSceneAgain

Spec == Init /\ [][Next]_vars

-----------------------------------------------------------------------------
(* An invocation in which a stage may raise: the handlers of generate_scene and
   of main *)

\* generate_scene's outputs with the stages' results so far left in them
ErrorOutputsKeepingResults ==
    [status |-> "error", plan |-> scene_plan, draft |-> scene_content,
     final |-> final_content]

\* What generate_scene returns from its except branch: the error message and
\* three empty outputs.
ErrorOutputs == [status |-> "error", plan |-> "", draft |-> "", final |-> ""]

\* What main leaves behind from its except branch: exit status 1, nothing else.
ExitFailure == [status |-> "exit 1", plan |-> "", draft |-> "", final |-> ""]

\* The stage a running invocation is at.
Stages == {"plan", "write", "edit"}

\* generate_scene: a stage raises, the except branch returns
generate_scene_except ==
    /\ pc \in Stages
    /\ entry = "gradio"
    /\ calls' = Append(calls, Call("raise", <<pc>>, "Exception"))
    /\ returned' = ErrorOutputs
    /\ pc' = "done"
    /\ UNCHANGED <<brief, project_data, ollama, planner, writer, entry, scene_plan,
                   scene_content, final_content, earlier, requests, service,
                   write_state, prior_failure, up_at_write>>

\* main: a stage raises inside process_brief, the except branch prints the error
\* and exits with status 1; save_output is not reached
main_except ==
    /\ pc \in Stages
    /\ entry = "cli"
    /\ calls' = Append(calls, Call("raise", <<pc>>, "Exception"))
    /\ returned' = ExitFailure
    /\ pc' = "done"
    /\ UNCHANGED <<brief, project_data, ollama, planner, writer, entry, scene_plan,
                   scene_content, final_content, earlier, requests, service,
                   write_state, prior_failure, up_at_write>>

\* main: save_output(final_content, args.output) after process_brief returned;
\* a failing write ends in the except branch
save_output ==
    /\ pc = "done"
    /\ entry = "cli"
    /\ returned.status = "ok"
    /\ \E saved \in BOOLEAN :
          /\ calls' = Append(calls, Call("save_output", <<returned.final>>,
                                         IF saved THEN "saved" ELSE "raised"))
          /\ returned' = IF saved THEN [returned EXCEPT !.status = "exit 0"]
                         ELSE ExitFailure
    /\ UNCHANGED <<brief, project_data, ollama, planner, writer, pc, entry, scene_plan,
                   scene_content, final_content, earlier, requests, service,
                   write_state, prior_failure, up_at_write>>

NextMain ==
    \/ process_brief
    \/ generate_scene
    \/ StepPlan
    \/ StepWrite
    \/ StepEdit
    \/ ReturnCli
    \/ ReturnGradio
    \/ generate_scene_except
    \/ main_except
    \/ save_output

SpecMain == Init /\ [][NextMain]_vars

-----------------------------------------------------------------------------
(* The agents called on their own, as test_agents.py calls them *)

\* A caller holding a brief and a freshly built Planner and Writer; the service is
\* down, so the Writer is in fallback mode.
InitAgents ==
    /\ brief \in Briefs
    /\ project_data \in ProjectDatas
    /\ ollama = "down"
    /\ planner = Planner(project_data)
    /\ writer = Writer(project_data, is_available(ollama))
    /\ pc = "idle"
    /\ entry = "none"
    /\ scene_plan = ""
    /\ scene_content = ""
    /\ final_content = ""
    /\ earlier = NoEarlier
    /\ calls = <<>>
    /\ requests = <<>>
    /\ service = NoService
    /\ write_state = "none"
    /\ prior_failure = FALSE
    /\ up_at_write = "none"
    /\ returned = NoReturn

\* planner.plan_scene(brief)
CallPlanScene ==
    /\ pc = "idle"
    /\ scene_plan' = plan_scene(planner, brief)
    /\ pc' = "planned"
    /\ UNCHANGED <<brief, project_data, ollama, planner, writer, entry, scene_content,
                   final_content, earlier, calls, requests, service, write_state,
                   prior_failure, up_at_write, returned>>

\* The caller keeps the plan and builds another Planner, over any project data.
NewPlanner ==
    /\ pc = "planned"
    /\ \E data \in ProjectDatas :
          /\ project_data' = data
          /\ planner' = Planner(data)
    /\ earlier' = [plan |-> scene_plan, project_data |-> project_data]
    /\ pc' = "rebuilt"
    /\ UNCHANGED <<brief, ollama, writer, entry, scene_plan, scene_content,
                   final_content, calls, requests, service, write_state,
                   prior_failure, up_at_write, returned>>

\* planner.plan_scene(brief) once more, for the same brief
CallPlanSceneAgain ==
    /\ pc = "rebuilt"
    /\ scene_plan' = plan_scene(planner, brief)
    /\ pc' = "replanned"
    /\ UNCHANGED <<brief, project_data, ollama, planner, writer, entry, scene_content,
                   final_content, earlier, calls, requests, service, write_state,
                   prior_failure, up_at_write, returned>>

NextPlan ==
    \/ CallPlanScene
    \/ NewPlanner
    \/ CallPlanSceneAgain

SpecPlan == InitAgents /\ [][NextPlan]_vars

\* writer._write_scene_fallback(brief, plan), with or without a plan
CallWriteSceneFallback ==
    /\ pc = "idle"
    /\ \E plan \in {"", plan_scene(planner, brief)} :
          /\ scene_plan' = plan
          /\ scene_content' = write_scene_fallback(writer, brief, plan)
    /\ pc' = "drafted"
    /\ UNCHANGED <<brief, project_data, ollama, planner, writer, entry, final_content,
                   earlier, calls, requests, service, write_state, prior_failure,
                   up_at_write, returned>>

NextFallback == CallWriteSceneFallback

SpecFallback == InitAgents /\ [][NextFallback]_vars

-----------------------------------------------------------------------------
(* The fallback generator called for two briefs *)

\* Other wordings of a brief: a heading before it, a synonym of its weather
\* keyword, and a wording that adds rain.
Rephrasings(text) ==
    {"Cena: " \o text, Replace(text, "chuva", "chuvosa"), text \o " na chuva"}

\* The words that decide which fragments the generator picks.
FragmentVocabulary ==
    {"MASP", "biblioteca", "café", "metrô", "tenso", "chuva", "Ivana e Dr. Manoel",
     "pai e filha"}

\* Every brief of at most MaxWords of these words, and the repository's briefs.
FragmentBriefs ==
    ScenarioBriefs
    \cup {Join(ws, " ") : ws \in UNION {[1..n -> FragmentVocabulary] : n \in 0..MaxWords}}

\* A caller holding one of these briefs and agents built with no project data on
\* disk; the service is down.
InitFeatures ==
    /\ brief \in FragmentBriefs
    /\ project_data = <<>>
    /\ ollama = "down"
    /\ planner = Planner(project_data)
    /\ writer = Writer(project_data, is_available(ollama))
    /\ pc = "idle"
    /\ entry = "none"
    /\ scene_plan = ""
    /\ scene_content = ""
    /\ final_content = ""
    /\ earlier = NoEarlier
    /\ calls = <<>>
    /\ requests = <<>>
    /\ service = NoService
    /\ write_state = "none"
    /\ prior_failure = FALSE
    /\ up_at_write = "none"
    /\ returned = NoReturn

\* writer._write_scene_fallback(brief, ''): no plan was made
CallFallbackWithoutPlan ==
    /\ pc = "idle"
    /\ scene_plan' = ""
    /\ scene_content' = write_scene_fallback(writer, brief, scene_plan')
    /\ calls' = Append(calls, Call("_write_scene_fallback", <<brief, scene_plan'>>,
                                   scene_content'))
    /\ pc' = "drafted"
    /\ UNCHANGED <<brief, project_data, ollama, planner, writer, entry, final_content,
                   earlier, requests, service, write_state, prior_failure,
                   up_at_write, returned>>

\* The caller takes another wording of the brief and builds the agents again, over
\* any project data.
AnotherBrief ==
    /\ pc = "drafted"
    /\ \E text \in Rephrasings(brief), data \in ProjectDatas :
          /\ brief' = text
          /\ project_data' = data
          /\ planner' = Planner(data)
          /\ writer' = Writer(data, is_available(ollama))
    /\ pc' = "rebriefed"
    /\ UNCHANGED <<ollama, entry, scene_plan, scene_content, final_content, earlier,
                   calls, requests, service, write_state, prior_failure, up_at_write,
                   returned>>

\* writer._write_scene_fallback(brief, scene_plan), with the Planner's plan
CallFallbackWithPlan ==
    /\ pc = "rebriefed"
    /\ scene_plan' = plan_scene(planner, brief)
    /\ scene_content' = write_scene_fallback(writer, brief, scene_plan')
    /\ calls' = Append(calls, Call("_write_scene_fallback", <<brief, scene_plan'>>,
                                   scene_content'))
    /\ pc' = "redrafted"
    /\ UNCHANGED <<brief, project_data, ollama, planner, writer, entry, final_content,
                   earlier, requests, service, write_state, prior_failure,
                   up_at_write, returned>>

NextFeatures ==
    \/ CallFallbackWithoutPlan
    \/ AnotherBrief
    \/ CallFallbackWithPlan

SpecFeatures == InitFeatures /\ [][NextFeatures]_vars

-----------------------------------------------------------------------------
(* test_agents.py: each agent called in turn for one brief *)

\* The other examples of the web interface.
ExampleBriefs ==
    {"Crie uma cena de suspense em uma biblioteca antiga, com dois personagens discutindo um segredo.",
     "Descreva um diálogo emotivo entre pai e filha em um café movimentado de São Paulo.",
     "Escreva uma cena de ação em um metrô lotado durante o horário de rush."}

\* Briefs with keywords in capitals, inside longer words, without accents, in an
\* order other than the rules' order, and with the keywords of the calm ambience.
EdgeBriefs ==
    {"Suspense TENSO no Metropolitano, dia e noite de sol e chuva",
     "ENCONTRO NO METRO LOTADO",
     "Um metrô vazio e silencioso",
     "Consolo e dialogo na madrugada",
     "Manha ensolarada de acao",
     "Dr Manoel e a filha",
     "Ivana e Dr. Manoel encontram pai e filha na biblioteca do MASP"}

AgentBriefs == Briefs \cup ExampleBriefs \cup EdgeBriefs

\* The test's starting point: project data loaded, a brief chosen, the service
\* down.
InitTest ==
    /\ brief \in AgentBriefs
    /\ project_data \in {data \in ProjectDatas : "world" \in DOMAIN data}
    /\ ollama = "down"
    /\ planner = Planner(project_data)
    /\ writer = Writer(project_data, is_available(ollama))
    /\ pc = "idle"
    /\ entry = "none"
    /\ scene_plan = ""
    /\ scene_content = ""
    /\ final_content = ""
    /\ earlier = NoEarlier
    /\ calls = <<>>
    /\ requests = <<>>
    /\ service = NoService
    /\ write_state = "none"
    /\ prior_failure = FALSE
    /\ up_at_write = "none"
    /\ returned = NoReturn

\* Planner test: planner.plan_scene(brief), which calls _extract_elements(brief)
TestPlanner ==
    /\ pc = "idle"
    /\ scene_plan' = plan_scene(planner, brief)
    /\ calls' = calls \o <<Call("_extract_elements", <<brief>>, extract_elements(brief)),
                           Call("plan_scene", <<brief>>, scene_plan')>>
    /\ pc' = "test_writer"
    /\ UNCHANGED <<brief, project_data, ollama, planner, writer, entry, scene_content,
                   final_content, earlier, requests, service, write_state,
                   prior_failure, up_at_write, returned>>

\* Writer test, first half: elements = writer._analyze_brief(brief)
TestAnalyzeBrief ==
    /\ pc = "test_writer"
    /\ calls' = Append(calls, Call("_analyze_brief", <<brief>>, analyze_brief(brief)))
    /\ pc' = "analyzed"
    /\ UNCHANGED <<brief, project_data, ollama, planner, writer, entry, scene_plan,
                   scene_content, final_content, earlier, requests, service,
                   write_state, prior_failure, up_at_write, returned>>

\* Writer test, second half: scene_content = writer.write_scene(brief, scene_plan)
TestWriter ==
    /\ pc = "analyzed"
    /\ \E svc \in ServiceBehaviours(ollama) : WriteSceneCall(brief, scene_plan, svc)
    /\ calls' = Append(calls, Call("write_scene", <<brief, scene_plan>>, scene_content'))
    /\ pc' = "test_editor"
    /\ UNCHANGED <<brief, project_data, ollama, planner, writer, entry, scene_plan,
                   final_content, earlier, returned>>

\* Editor test: final_content = editor.edit_scene(scene_content, brief, scene_plan)
TestEditor ==
    /\ pc = "test_editor"
    /\ final_content' = edit_scene(Editor(project_data), scene_content, brief, scene_plan)
    /\ calls' = Append(calls, Call("edit_scene", <<scene_content, brief, scene_plan>>,
                                   final_content'))
    /\ pc' = "tested"
    /\ UNCHANGED <<brief, project_data, ollama, planner, writer, entry, scene_plan,
                   scene_content, earlier, requests, service, write_state,
                   prior_failure, up_at_write, returned>>

NextTest ==
    \/ TestPlanner
    \/ TestAnalyzeBrief
    \/ TestWriter
    \/ TestEditor

SpecTest == InitTest /\ [][NextTest]_vars

-----------------------------------------------------------------------------
(* The Editor given any draft *)

\* The characters of the generated drafts: a letter, a space and a line break.
Alphabet == {"a", " ", "\n"}

\* Every draft of at most MaxLen of these characters.
CharTexts == {Join(cs, "") : cs \in UNION {[1..n -> Alphabet] : n \in 0..MaxLen}}

\* Sentences with the phrases _enhance_paragraph looks for, and separators.
Phrases ==
    {"A chuva tamborilava contra as grandes janelas.",
     "Ivana viu a silhueta familiar de Dr. Manoel.",
     "\n\n", " "}

\* Every draft of at most MaxPhrases of these.
PhraseTexts == {Join(ps, "") : ps \in UNION {[1..n -> Phrases] : n \in 0..MaxPhrases}}

\* Drafts as the Writer returns them, and drafts with the spacing the literal
\* corrections look for.
SampleTexts ==
    {write_scene_fallback(Writer(<<>>, FALSE),
         "Escreva um encontro tenso no MASP entre Ivana e Dr. Manoel, noite chuvosa.", ""),
     write_scene_fallback(Writer(<<>>, FALSE), "", ""),
     "Ela parou , olhou  para ele .\n\n\n\"Sim.\"",
     "Chovia   muito .",
     "A chuva tamborilava  contra as grandes janelas.",
     "Fim.\n\n\n\n\n\"Sim.\"\n",
     "  \n\n  "}

Texts == CharTexts \cup PhraseTexts \cup SampleTexts

\* An Editor and a draft to edit.
InitEditor ==
    /\ brief = ""
    /\ project_data = <<>>
    /\ ollama = "down"
    /\ planner = Planner(project_data)
    /\ writer = Writer(project_data, is_available(ollama))
    /\ pc = "idle"
    /\ entry = "none"
    /\ scene_plan = ""
    /\ scene_content \in Texts
    /\ final_content = ""
    /\ earlier = NoEarlier
    /\ calls = <<>>
    /\ requests = <<>>
    /\ service = NoService
    /\ write_state = "none"
    /\ prior_failure = FALSE
    /\ up_at_write = "none"
    /\ returned = NoReturn

\* editor.edit_scene(scene_content, brief, scene_plan)
CallEditScene ==
    /\ pc = "idle"
    /\ final_content' = edit_scene(Editor(project_data), scene_content, brief, scene_plan)
    /\ calls' = Append(calls, Call("edit_scene", <<scene_content, brief, scene_plan>>,
                                   final_content'))
    /\ pc' = "edited"
    /\ UNCHANGED <<brief, project_data, ollama, planner, writer, entry, scene_plan,
                   scene_content, earlier, requests, service, write_state,
                   prior_failure, up_at_write, returned>>

\* editor._apply_style_corrections(scene_content), step 1 on its own
CallStyleCorrections ==
    /\ pc = "idle"
    /\ calls' = Append(calls, Call("_apply_style_corrections", <<scene_content>>,
                                   apply_style_corrections(scene_content)))
    /\ pc' = "corrected"
    /\ UNCHANGED <<brief, project_data, ollama, planner, writer, entry, scene_plan,
                   scene_content, final_content, earlier, requests, service,
                   write_state, prior_failure, up_at_write, returned>>

\* editor._apply_style_corrections applied to what it returned
CallStyleCorrectionsAgain ==
    /\ pc = "corrected"
    /\ calls' = Append(calls, Call("_apply_style_corrections", <<calls[Len(calls)].result>>,
                                   apply_style_corrections(calls[Len(calls)].result)))
    /\ pc' = "recorrected"
    /\ UNCHANGED <<brief, project_data, ollama, planner, writer, entry, scene_plan,
                   scene_content, final_content, earlier, requests, service,
                   write_state, prior_failure, up_at_write, returned>>

\* editor._enhance_prose(scene_content), step 2 on its own
CallEnhanceProse ==
    /\ pc = "idle"
    /\ calls' = Append(calls, Call("_enhance_prose", <<scene_content>>,
                                   enhance_prose(scene_content)))
    /\ pc' = "enhanced"
    /\ UNCHANGED <<brief, project_data, ollama, planner, writer, entry, scene_plan,
                   scene_content, final_content, earlier, requests, service,
                   write_state, prior_failure, up_at_write, returned>>

NextEditor ==
    \/ CallEditScene
    \/ CallStyleCorrections
    \/ CallStyleCorrectionsAgain
    \/ CallEnhanceProse

SpecEditor == InitEditor /\ [][NextEditor]_vars

-----------------------------------------------------------------------------
(* One Planner, one Writer and one Editor serving calls for several briefs *)

\* The briefs the callers bring.
SharedBriefs ==
    {"Escreva um encontro tenso no MASP entre Ivana e Dr. Manoel, noite chuvosa.",
     "Pai e filha discutindo no café, tarde de sol",
     ""}

\* The agents are built once, over the project data; the service is down.
InitShared ==
    /\ brief = ""
    /\ project_data \in {data \in ProjectDatas : "world" \in DOMAIN data}
    /\ ollama = "down"
    /\ planner = Planner(project_data)
    /\ writer = Writer(project_data, is_available(ollama))
    /\ pc = "serving"
    /\ entry = "none"
    /\ scene_plan = ""
    /\ scene_content = ""
    /\ final_content = ""
    /\ earlier = NoEarlier
    /\ calls = <<>>
    /\ requests = <<>>
    /\ service = NoService
    /\ write_state = "none"
    /\ prior_failure = FALSE
    /\ up_at_write = "none"
    /\ returned = NoReturn

\* planner.plan_scene answering from the plan it made last, whatever the brief
shared_plan_scene_cached ==
    /\ pc = "serving"
    /\ Len(calls) < MaxCalls
    /\ \E text \in SharedBriefs :
          /\ brief' = text
          /\ scene_plan' = IF earlier.plan # "" THEN earlier.plan
                           ELSE plan_scene(planner, text)
          /\ earlier' = [earlier EXCEPT !.plan = scene_plan']
          /\ calls' = Append(calls, Call("plan_scene", <<text>>, scene_plan'))
    /\ UNCHANGED <<project_data, ollama, planner, writer, pc, entry, scene_content,
                   final_content, requests, service, write_state, prior_failure,
                   up_at_write, returned>>

\* Some caller's planner.plan_scene(brief)
shared_plan_scene ==
    /\ pc = "serving"
    /\ Len(calls) < MaxCalls
    /\ \E text \in SharedBriefs :
          /\ brief' = text
          /\ scene_plan' = plan_scene(planner, text)
          /\ calls' = Append(calls, Call("plan_scene", <<text>>, scene_plan'))
    /\ UNCHANGED <<project_data, ollama, planner, writer, pc, entry, scene_content,
                   final_content, earlier, requests, service, write_state,
                   prior_failure, up_at_write, returned>>

\* Some caller's writer.write_scene(brief, scene_plan), with the plan made last
shared_write_scene ==
    /\ pc = "serving"
    /\ Len(calls) < MaxCalls
    /\ \E text \in SharedBriefs :
          /\ brief' = text
          /\ \E svc \in ServiceBehaviours(ollama) : WriteSceneCall(text, scene_plan, svc)
          /\ calls' = Append(calls, Call("write_scene", <<text, scene_plan>>,
                                         scene_content'))
    /\ UNCHANGED <<project_data, ollama, planner, writer, pc, entry, scene_plan,
                   final_content, earlier, returned>>

\* Some caller's editor.edit_scene(scene_content, brief, scene_plan), with the
\* draft and the plan made last
shared_edit_scene ==
    /\ pc = "serving"
    /\ Len(calls) < MaxCalls
    /\ \E text \in SharedBriefs :
          /\ brief' = text
          /\ final_content' = edit_scene(Editor(project_data), scene_content, text,
                                         scene_plan)
          /\ calls' = Append(calls, Call("edit_scene", <<scene_content, text, scene_plan>>,
                                         final_content'))
    /\ UNCHANGED <<project_data, ollama, planner, writer, pc, entry, scene_plan,
                   scene_content, earlier, requests, service, write_state,
                   prior_failure, up_at_write, returned>>

NextShared ==
    \/ shared_plan_scene
    \/ shared_write_scene
    \/ shared_edit_scene

SpecShared == InitShared /\ [][NextShared]_vars

-----------------------------------------------------------------------------
(* The engine called on its own *)

\* Prompts given to generate: the Writer's prompts for some briefs, and prompts
\* without the brief marker, with nothing after it, with no blank line after it,
\* and with more than 200 characters after it.
Prompts ==
    {build_prompt(Writer(data, TRUE), text, plan_scene(Planner(data), text)) :
        text \in {"Escreva um encontro tenso no MASP entre Ivana e Dr. Manoel, noite chuvosa.",
                  "", "   "},
        data \in {d \in ProjectDatas : "world" \in DOMAIN d}}
    \cup {"", "CENA:", "BRIEF DA CENA:", "BRIEF DA CENA:\n\n",
          "BRIEF DA CENA: Ivana espera no café",
          "BRIEF DA CENA:\n"
             \o Join([i \in 1..6 |-> "Ivana atravessou o vão livre do museu sem olhar para trás."],
                     " ")}

\* An engine, and the service up or down.
InitEngine ==
    /\ brief = ""
    /\ project_data = <<>>
    /\ ollama \in {"up", "down"}
    /\ planner = Planner(project_data)
    /\ writer = Writer(project_data, is_available(ollama))
    /\ pc = "engine"
    /\ entry = "none"
    /\ scene_plan = ""
    /\ scene_content = ""
    /\ final_content = ""
    /\ earlier = NoEarlier
    /\ calls = <<>>
    /\ requests = <<>>
    /\ service = NoService
    /\ write_state = "none"
    /\ prior_failure = FALSE
    /\ up_at_write = "none"
    /\ returned = NoReturn

\* One call llm.generate(prompt) under the service behaviour svc.
GenerateCall(prompt, svc) ==
    \E r \in {generate(writer.llm, prompt, svc)} :
        /\ calls' = Append(calls, Call("generate", <<prompt>>, r.text))
        /\ requests' = r.sent
        /\ service' = svc
        /\ write_state' = IF r.raised THEN "raised" ELSE "returned"
        /\ up_at_write' = ollama

\* llm.generate(prompt)
CallGenerate ==
    /\ pc = "engine"
    /\ \E prompt \in Prompts, svc \in ServiceBehaviours(ollama) : GenerateCall(prompt, svc)
    /\ pc' = "generated"
    /\ UNCHANGED <<brief, project_data, ollama, planner, writer, entry, scene_plan,
                   scene_content, final_content, earlier, prior_failure, returned>>

\* llm.generate(prompt) once more, with the same prompt
CallGenerateAgain ==
    /\ pc = "generated"
    /\ \E svc \in ServiceBehaviours(ollama) : GenerateCall(calls[1].args[1], svc)
    /\ pc' = "regenerated"
    /\ UNCHANGED <<brief, project_data, ollama, planner, writer, entry, scene_plan,
                   scene_content, final_content, earlier, prior_failure, returned>>

NextEngine ==
    \/ CallGenerate
    \/ CallGenerateAgain

SpecEngine == InitEngine /\ [][NextEngine]_vars

-----------------------------------------------------------------------------
(* Reading a plan back: its lines, its sections, the entries of a section *)

PlanLines(plan) == Split(plan, "\n")

\* The lines that follow the heading line, up to the next blank line.
Section(lines, heading) ==
    LET h == CHOOSE i \in 1..Len(lines) : lines[i] = heading
        stop == IF \A i \in (h + 1)..Len(lines) : lines[i] # "" THEN Len(lines) + 1
                ELSE CHOOSE i \in (h + 1)..Len(lines) :
                        lines[i] = "" /\ \A j \in (h + 1)..(i - 1) : lines[j] # ""
    IN  SubSeq(lines, h + 1, stop - 1)

StartsWith(line, prefix) ==
    Len(line) >= Len(prefix) /\ SubSeq(line, 1, Len(prefix)) = prefix

\* The texts of the entries "- **label**: text" of a section, in order.
Entries(section, label) ==
    LET prefix == "- **" \o label \o "**: "
        hits == SelectSeq(section, LAMBDA line : StartsWith(line, prefix))
    IN  [i \in 1..Len(hits) |-> SubSeq(hits[i], Len(prefix) + 1, Len(hits[i]))]

Planned == pc \in {"planned", "rebuilt", "replanned"}

Outlines == {OutlineTenseRain, OutlineEmotional, OutlineAction, OutlineGeneric}

-----------------------------------------------------------------------------
(* Claims about Writer.write_scene and the service *)

ModelListed(svc) == \E i \in 1..Len(svc.models) : Contains(svc.models[i], LLMEngine.model)

\* Some request of the call was not answered successfully.
ServiceFailed(svc) ==
    \/ svc.tags # "ok"
    \/ ~ModelListed(svc)
    \/ svc.warmup # "ok"
    \/ svc.generate # "ok"

\* The last write_scene was made in generation-service mode.
WroteInServiceMode == write_state # "none" /\ ~writer.use_fallback /\ service # NoService

\* C1: in generation-service mode, a write_scene call whose service interaction
\* fails (probe, warm-up, timeout, refused connection, error status, malformed
\* answer) returns exactly what _write_scene_fallback returns for the same brief.
C1_FailureReturnsFallbackContent ==
    (WroteInServiceMode /\ ServiceFailed(service))
        => scene_content = write_scene_fallback(writer, brief, scene_plan)

\* C2: in generation-service mode, a successful answer whose trimmed text is empty
\* or shorter than 50 characters is discarded and write_scene returns what
\* _write_scene_fallback returns for the same brief.
C2_ShortAnswerReturnsFallbackContent ==
    (WroteInServiceMode /\ ~ServiceFailed(service)
        /\ Len(Strip(service.response)) < MinContentLen)
        => scene_content = write_scene_fallback(writer, brief, scene_plan)

\* C3: the Writer's mode is decided at construction and never changes: a Writer
\* built while the service was down answers every call with the fallback content
\* and sends no request, even when the service is up at the call; a Writer built
\* while it was up sends requests on every call, earlier failures notwithstanding;
\* and use_fallback changes only where a new Writer is constructed.
C3_ModeDecidedOnce ==
    /\ [](write_state # "none" /\ writer.use_fallback
            => /\ requests = <<>>
               /\ scene_content = write_scene_fallback(writer, brief, scene_plan))
    /\ [](write_state # "none" /\ ~writer.use_fallback => requests # <<>>)
    /\ [][writer'.use_fallback = writer.use_fallback \/ pc' = "plan"]_vars

\* C3 witness: a second or later call on a Writer built while the service was down,
\* made while the service is up.
C3_Witness ==
    /\ writer.use_fallback
    /\ write_state = "returned"
    /\ prior_failure
    /\ up_at_write = "up"
    /\ requests = <<>>

\* C4: whatever the brief and whatever the service does, write_scene raises
\* nothing and returns a non-empty text.
C4_WriteSceneAlwaysReturnsText ==
    write_state # "none" => write_state = "returned" /\ Len(scene_content) > 0

\* C4 witness: a call answered although the service sent a malformed answer.
C4_Witness ==
    /\ WroteInServiceMode
    /\ service.generate = "malformed"
    /\ write_state = "returned"
    /\ brief = ""

\* C5: the stages run in the order plan, write, edit; write_scene gets the brief
\* and the plan plan_scene returned, edit_scene gets the content write_scene
\* returned (with the brief and that plan), and a successful invocation returns
\* edit_scene's result as the final content.
C5_StagesChained ==
    /\ Len(calls) <= 3
    /\ \A i \in 1..Len(calls) :
          calls[i].op = <<"plan_scene", "write_scene", "edit_scene">>[i]
    /\ Len(calls) = CASE pc = "plan" -> 0
                      [] pc = "write" -> 1
                      [] pc = "edit" -> 2
                      [] pc = "save" -> 3
                      [] pc = "done" -> IF returned.status = "ok" THEN 3 ELSE Len(calls)
                      [] OTHER -> 0
    /\ Len(calls) >= 1 => calls[1].args = <<brief>>
    /\ Len(calls) >= 2 => calls[2].args = <<brief, calls[1].result>>
    /\ Len(calls) >= 3 => calls[3].args = <<calls[2].result, brief, calls[1].result>>
    /\ (pc = "done" /\ returned.status = "ok") => returned.final = calls[3].result

\* C5 witness: a finished web invocation whose final content differs from its
\* draft and from its plan.
C5_Witness ==
    /\ pc = "done"
    /\ entry = "gradio"
    /\ returned.status = "ok"
    /\ Len(calls) = 3
    /\ returned.final # calls[2].result
    /\ returned.final # calls[1].result

-----------------------------------------------------------------------------
(* Claims about Planner.plan_scene *)

\* C6: plan_scene returns a plan for every brief, and a second call for the same
\* brief returns the identical plan, whichever project data the Planner was
\* built over and whatever was planned before.
C6_PlanDependsOnBriefOnly ==
    /\ Planned => Len(scene_plan) > 0
    /\ pc = "replanned" => scene_plan = earlier.plan

\* C6 witness: the same brief planned twice by Planners over different project data.
C6_Witness ==
    /\ pc = "replanned"
    /\ earlier.project_data # project_data
    /\ planner.style_guide # ""
    /\ brief # ""

\* C7: the narrative-progression block is exactly one of the four outlines: the
\* Tense+Rain outline iff mood is tenso and weather is chuva, else the Emotional
\* outline iff mood is emotivo, else the Action outline iff mood is ação, else the
\* generic outline.
C7_OutlineSelection ==
    Planned =>
        LET e == extract_elements(brief)
            block == Section(PlanLines(scene_plan), "### 3. PROGRESSÃO NARRATIVA")
            tenseRain == e.mood = "tenso" /\ e.weather = "chuva"
        IN  /\ block \in Outlines
            /\ Cardinality(Outlines) = 4
            /\ block = OutlineTenseRain <=> tenseRain
            /\ block = OutlineEmotional <=> (~tenseRain /\ e.mood = "emotivo")
            /\ block = OutlineAction <=> (~tenseRain /\ e.mood = "ação")
            /\ block = OutlineGeneric
                  <=> (~tenseRain /\ e.mood \notin {"emotivo", "ação"})

\* C7 witness: a tense brief without rain, planned with the generic outline.
C7_Witness ==
    /\ Planned
    /\ extract_elements(brief).mood = "tenso"
    /\ extract_elements(brief).weather # "chuva"
    /\ Section(PlanLines(scene_plan), "### 3. PROGRESSÃO NARRATIVA") = OutlineGeneric

\* The character block: a bullet per detected character, else the placeholder line.
CharacterBlockOK(lines, e) ==
    Section(lines, "### 2. PERSONAGENS")
        = IF Len(e.characters) > 0
          THEN [i \in 1..Len(e.characters) |-> "- " \o e.characters[i]]
          ELSE <<"- Personagens a definir">>

\* The four entries every setting block has: the value, else the placeholder.
FourEntriesOK(block, e) ==
    /\ Entries(block, "Local") = <<Or(e.setting, "Local a definir")>>
    /\ Entries(block, "Período") = <<Or(e.time_period, "Período a definir")>>
    /\ Entries(block, "Clima") = <<Or(e.weather, "Clima neutro")>>
    /\ Entries(block, "Atmosfera") = <<Or(e.mood, "Atmosfera neutra")>>

\* C8 as claimed: the setting block has an entry for each of the five dimensions
\* local, period, weather, mood and movement, each showing the value or a
\* placeholder; the character block has a bullet per character or the placeholder.
C8_FiveEntriesAlways ==
    Planned =>
        LET e == extract_elements(brief)
            lines == PlanLines(scene_plan)
            block == Section(lines, "### 1. AMBIENTAÇÃO")
        IN  /\ FourEntriesOK(block, e)
            /\ Len(Entries(block, "Movimento")) = 1
            /\ e.action # "" => Entries(block, "Movimento") = <<e.action>>
            /\ Len(block) = 5
            /\ CharacterBlockOK(lines, e)

\* C8 as amended: local, period, weather and mood always have an entry, showing
\* the value or the dimension's placeholder; movement has an entry only when it
\* was recognised, and no placeholder; the character block has a bullet per
\* detected character, or the placeholder line when there is none.
C8_FourEntriesAndOptionalMovement ==
    Planned =>
        LET e == extract_elements(brief)
            lines == PlanLines(scene_plan)
            block == Section(lines, "### 1. AMBIENTAÇÃO")
        IN  /\ FourEntriesOK(block, e)
            /\ Entries(block, "Movimento")
                  = IF e.action # "" THEN <<e.action>> ELSE <<>>
            /\ Len(block) = IF e.action # "" THEN 5 ELSE 4
            /\ CharacterBlockOK(lines, e)

\* C8 witness: a plan for a brief with a setting but no period, weather, mood or
\* movement keyword.
C8_Witness ==
    /\ Planned
    /\ extract_elements(brief).setting # ""
    /\ extract_elements(brief).time_period = ""
    /\ extract_elements(brief).action = ""
    /\ extract_elements(brief).characters = <<>>
    /\ Len(Section(PlanLines(scene_plan), "### 1. AMBIENTAÇÃO")) = 4

\* The guidance lines of the technical-notes block: what stands between the
\* narrative-focus line and the closing dialogue line.
Guidance(plan) ==
    LET block == Section(PlanLines(plan), "### 4. ELEMENTOS TÉCNICOS")
    IN  SubSeq(block, 2, Len(block) - 1)

\* The technical-notes block opens with the focus line and ends with the fixed
\* dialogue line, and is the last block of the plan.
NotesFramed(plan) ==
    LET lines == PlanLines(plan)
        block == Section(lines, "### 4. ELEMENTOS TÉCNICOS")
    IN  /\ Len(block) = 4
        /\ block[1] = "- **Foco narrativo**: Terceira pessoa onisciente"
        /\ block[Len(block)] = DialogueLine
        /\ lines[Len(lines)] = DialogueLine

\* C9 as claimed: the guidance is selected by mood alone, with a case of its own
\* for each of the four moods besides the generic default, and the block ends
\* with the fixed dialogue line.
C9_FourMoodCases ==
    Planned =>
        LET mood == extract_elements(brief).mood
            specific == {NotesTense, NotesAction, NotesEmotional}
        IN  /\ NotesFramed(scene_plan)
            /\ Guidance(scene_plan)
                  = CASE mood = "tenso" -> NotesTense
                      [] mood = "ação" -> NotesAction
                      [] mood = "emotivo" -> NotesEmotional
                      [] mood = "" -> NotesGeneric
                      [] OTHER -> Guidance(scene_plan)
            /\ mood = "suspense"
                  => Guidance(scene_plan) \notin specific \cup {NotesGeneric}

\* C9 as amended: the guidance is selected by mood alone, with three
\* mood-specific cases (tenso, ação, emotivo) and a generic default, which a
\* suspense mood and an absent mood both get; the block ends with the fixed
\* dialogue line.
C9_ThreeMoodCases ==
    Planned =>
        LET mood == extract_elements(brief).mood
        IN  /\ NotesFramed(scene_plan)
            /\ Cardinality({NotesTense, NotesAction, NotesEmotional, NotesGeneric}) = 4
            /\ Guidance(scene_plan)
                  = CASE mood = "tenso" -> NotesTense
                      [] mood = "ação" -> NotesAction
                      [] mood = "emotivo" -> NotesEmotional
                      [] OTHER -> NotesGeneric

\* C9 witness: a suspense brief with rain, planned with the generic guidance.
C9_Witness ==
    /\ Planned
    /\ extract_elements(brief).mood = "suspense"
    /\ extract_elements(brief).weather = "chuva"
    /\ Guidance(scene_plan) = NotesGeneric

-----------------------------------------------------------------------------
(* Claims about the deterministic fallback *)

\* The opening fragment of a fallback text: its first line.
OpeningOf(content) == PlanLines(content)[1]

\* C10: the opening is the MASP-rain fragment for rain at the MASP, the rain
\* fragment naming the setting for rain at another known setting, the setting's
\* own fragment without rain, and the generic fragment whenever no setting is
\* known, whatever the weather.
C10_OpeningByWeatherAndSetting ==
    pc = "drafted" =>
        LET e == analyze_brief(brief)
            rain == e.weather = "chuva"
            masp == Contains(e.setting, "MASP")
        IN  OpeningOf(scene_content)
                = CASE e.setting = "" -> OpeningGeneric
                    [] e.setting # "" /\ rain /\ masp -> OpeningMaspRain
                    [] e.setting # "" /\ rain /\ ~masp -> OpeningRain(e.setting)
                    [] e.setting # "" /\ ~rain /\ masp -> OpeningMasp
                    [] e.setting = "café movimentado" /\ ~rain -> OpeningCafe
                    [] e.setting = "biblioteca antiga" /\ ~rain -> OpeningLibrary
                    [] e.setting = "estação de metrô" /\ ~rain -> OpeningSubway

\* The fragments of a fallback text: each fragment after the opening starts a new
\* paragraph.
Fragments(content) == Split(content, "\n\n")

\* A fragment list as it reads inside the text, without the leading line breaks.
Bodies(fragments) ==
    [i \in 1..Len(fragments) |-> SubSeq(fragments[i], 2, Len(fragments[i]))]

\* The character-interaction fragments of a fallback text, and its closing fragment.
InteractionOf(content) ==
    SubSeq(Fragments(content), 2, Len(Fragments(content)) - 1)

ClosingOf(content) == Fragments(content)[Len(Fragments(content))]

Settings ==
    {"", "MASP (Museu de Arte de São Paulo)", "biblioteca antiga", "café movimentado",
     "estação de metrô"}

Openings ==
    {OpeningMaspRain, OpeningMasp, OpeningCafe, OpeningLibrary, OpeningSubway,
     OpeningGeneric} \cup {OpeningRain(setting) : setting \in Settings}

Interactions ==
    {Bodies(ExchangeIvanaManoel), Bodies(VignetteFatherDaughter),
     Bodies(<<InteractionGeneric>>)}

Closings == {Bodies(<<ClosingRain>>), Bodies(<<ClosingTense>>), Bodies(<<ClosingGeneric>>)}

\* A text made of one opening, one interaction and one closing, in that order.
Assembled(content) ==
    /\ content # ""
    /\ Len(Fragments(content)) >= 3
    /\ OpeningOf(content) \in Openings
    /\ InteractionOf(content) \in Interactions
    /\ <<ClosingOf(content)>> \in Closings

\* C12: fallback generation returns, for every brief, a text made of exactly one
\* opening, one interaction and one closing fragment in that order; two briefs
\* with the same extracted features get the same text, whatever the plan and the
\* project data of each call.
C12_FallbackPureFunctionOfFeatures ==
    /\ \A i \in 1..Len(calls) : Assembled(calls[i].result)
    /\ \A i, j \in 1..Len(calls) :
          analyze_brief(calls[i].args[1]) = analyze_brief(calls[j].args[1])
              => calls[i].result = calls[j].result

\* Two wordings with the same features were drafted, one without a plan and one
\* with a plan and over other project data, and got the same text.
C12_Witness ==
    /\ pc = "redrafted"
    /\ Len(calls) = 2
    /\ calls[1].args[1] # calls[2].args[1]
    /\ calls[1].args[2] # calls[2].args[2]
    /\ project_data # <<>>
    /\ analyze_brief(calls[1].args[1]) = analyze_brief(calls[2].args[1])
    /\ analyze_brief(calls[1].args[1]).setting # ""
    /\ calls[1].result = calls[2].result

-----------------------------------------------------------------------------
(* Claims about the brief analysis *)

\* The categories of the feature dimensions, read from the values the two
\* analysers store.
SettingCategory(value) ==
    IF Contains(Lower(value), "masp") THEN "MASP"
    ELSE IF Contains(Lower(value), "biblioteca") THEN "Library"
    ELSE IF Contains(Lower(value), "café") THEN "Cafe"
    ELSE IF Contains(Lower(value), "metrô") THEN "Subway"
    ELSE "absent"

MoodCategory(value) ==
    CASE value = "tenso" -> "Tense"
      [] value = "suspense" -> "Suspense"
      [] value = "emotivo" -> "Emotional"
      [] value = "ação" -> "Action"
      [] OTHER -> "absent"

TimeCategory(value) ==
    CASE value = "noite" -> "Night"
      [] value = "dia" -> "Day"
      [] value = "tarde" -> "Afternoon"
      [] value = "manhã" -> "Morning"
      [] OTHER -> "absent"

WeatherCategory(value) ==
    CASE value = "chuva" -> "Rain"
      [] value = "sol" -> "Sun"
      [] OTHER -> "absent"

ActionCategory(value) ==
    CASE value \in {"encontro", "encontro/confronto"} -> "Encounter"
      [] value = "discussão" -> "Discussion"
      [] value = "diálogo" -> "Dialogue"
      [] value = "movimento intenso" -> "HighMovement"
      [] value = "ambiente calmo" -> "Calm"
      [] OTHER -> "absent"

CharacterCategory(value) ==
    CASE value = "Ivana" -> "Ivana"
      [] value = "Dr. Manoel" -> "DrManoel"
      [] Lower(value) = "pai" -> "Father"
      [] Lower(value) = "filha" -> "Daughter"
      [] OTHER -> "unknown"

CharacterCategories(list) == {CharacterCategory(list[i]) : i \in 1..Len(list)}

\* The feature set the Planner's analysis stands for; its kind of conflict, when
\* it found one, is the action type, else its movement is.
PlannerFeatureSet(elements) ==
    [characters |-> CharacterCategories(elements.characters),
     setting    |-> SettingCategory(elements.setting),
     mood       |-> MoodCategory(elements.mood),
     timeOfDay  |-> TimeCategory(elements.time_period),
     weather    |-> WeatherCategory(elements.weather),
     actionType |-> ActionCategory(Or(elements.conflict_type, elements.action))]

\* The feature set the Writer's analysis stands for.
WriterFeatureSet(elements) ==
    [characters |-> CharacterCategories(elements.characters),
     setting    |-> SettingCategory(elements.setting),
     mood       |-> MoodCategory(elements.mood),
     timeOfDay  |-> TimeCategory(elements.time),
     weather    |-> WeatherCategory(elements.weather),
     actionType |-> ActionCategory(elements.action)]

\* The calls of one operation made so far.
CallsOf(op) == {i \in 1..Len(calls) : calls[i].op = op}

\* C13: for every brief, the Writer's _analyze_brief and the Planner's
\* _extract_elements yield the same category in every feature dimension.
C13_AnalysersAgree ==
    \A i \in CallsOf("_extract_elements"), j \in CallsOf("_analyze_brief") :
        calls[i].args = calls[j].args
            => PlannerFeatureSet(calls[i].result) = WriterFeatureSet(calls[j].result)

\* The rules of the single-valued dimensions, in priority order: the keywords of
\* a rule and the category it gives.
Rule(keys, value) == [keys |-> keys, value |-> value]

SettingRules ==
    <<Rule({"masp"}, "MASP"), Rule({"biblioteca"}, "Library"), Rule({"café"}, "Cafe"),
      Rule({"metrô", "metro"}, "Subway")>>

MoodRules ==
    <<Rule({"tenso"}, "Tense"), Rule({"suspense"}, "Suspense"),
      Rule({"emotivo"}, "Emotional"), Rule({"ação", "acao"}, "Action")>>

TimeRules ==
    <<Rule({"noite"}, "Night"), Rule({"dia"}, "Day"), Rule({"tarde"}, "Afternoon"),
      Rule({"manhã", "manha"}, "Morning")>>

WeatherRules ==
    <<Rule({"chuvosa", "chuva"}, "Rain"), Rule({"sol", "ensolarado"}, "Sun")>>

\* Whether a rule matches a lower-cased text: one of its keywords occurs in it.
Matches(rule, lowered) == \E key \in rule.keys : Contains(lowered, key)

\* The rules that match a lower-cased text.
Matching(rules, lowered) == {i \in 1..Len(rules) : Matches(rules[i], lowered)}

\* The category of the first matching rule, absent when none matches.
FirstMatch(rules, lowered) ==
    IF \A i \in 1..Len(rules) : ~Matches(rules[i], lowered) THEN "absent"
    ELSE rules[CHOOSE i \in 1..Len(rules) :
                   /\ Matches(rules[i], lowered)
                   /\ \A j \in 1..(i - 1) : ~Matches(rules[j], lowered)].value

\* C14: in each single-valued dimension the analyser's result is the value of the
\* first rule, in the fixed priority order, whose keyword is a substring of the
\* lower-cased brief, and is absent when no rule matches.
C14_FirstMatchingRuleWins ==
    \A i \in CallsOf("_extract_elements") :
        \A lowered \in {Lower(calls[i].args[1])} :
            LET features == PlannerFeatureSet(calls[i].result)
            IN  /\ features.setting = FirstMatch(SettingRules, lowered)
                /\ features.mood = FirstMatch(MoodRules, lowered)
                /\ features.timeOfDay = FirstMatch(TimeRules, lowered)
                /\ features.weather = FirstMatch(WeatherRules, lowered)

\* A brief in mixed case that names suspense before tense, day before night and
\* sun before rain, and has "metro" only inside a longer word, was analysed: the
\* earlier rule won in each dimension.
C14_Witness ==
    \E i \in CallsOf("_extract_elements") :
        LET text == calls[i].args[1]
            features == PlannerFeatureSet(calls[i].result)
        IN  /\ Lower(text) # text
            /\ Matching(MoodRules, Lower(text)) = {1, 2}
            /\ Matching(TimeRules, Lower(text)) = {1, 2}
            /\ Matching(WeatherRules, Lower(text)) = {1, 2}
            /\ Contains(text, "Metropolitano")
            /\ features = [characters |-> {}, setting |-> "Subway", mood |-> "Tense",
                           timeOfDay |-> "Night", weather |-> "Rain",
                           actionType |-> "absent"]

\* What the character rules give for a lower-cased text, each rule taken on its
\* own.
CharactersMentioned(lowered) ==
    (IF Contains(lowered, "ivana") THEN {"Ivana"} ELSE {})
    \cup (IF Contains(lowered, "manoel") THEN {"DrManoel"} ELSE {})
    \cup (IF Contains(lowered, "pai") /\ Contains(lowered, "filha")
          THEN {"Father", "Daughter"} ELSE {})

\* C15: both analysers put Ivana in the characters iff the brief mentions ivana,
\* Dr. Manoel iff it mentions manoel, and Father and Daughter together iff it
\* mentions both pai and filha; no rule suppresses another, and no character is
\* listed twice.
C15_CharacterRulesIndependent ==
    \A i \in CallsOf("_extract_elements") \cup CallsOf("_analyze_brief") :
        \A lowered \in {Lower(calls[i].args[1])} :
            LET found == calls[i].result.characters
            IN  /\ CharacterCategories(found) = CharactersMentioned(lowered)
                /\ Cardinality(CharacterCategories(found)) = Len(found)

\* Both analysers were given a brief that names Ivana, Dr. Manoel and a father
\* and daughter, and each listed the four of them.
C15_Witness ==
    /\ CallsOf("_extract_elements") # {}
    /\ CallsOf("_analyze_brief") # {}
    /\ \A i \in CallsOf("_extract_elements") \cup CallsOf("_analyze_brief") :
          /\ Len(calls[i].result.characters) = 4
          /\ CharacterCategories(calls[i].result.characters)
                = {"Ivana", "DrManoel", "Father", "Daughter"}

-----------------------------------------------------------------------------
(* Claims about the three agents called in turn *)

Scenario1 == "Escreva um encontro tenso no MASP entre Ivana e Dr. Manoel, noite chuvosa."

\* The feature set of scenario 1.
Scenario1Features ==
    [characters |-> {"Ivana", "DrManoel"}, setting |-> "MASP", mood |-> "Tense",
     timeOfDay |-> "Night", weather |-> "Rain", actionType |-> "Encounter"]

\* C16: for the brief of scenario 1 both analyses give characters Ivana and
\* Dr. Manoel, setting MASP, mood Tense, time Night, weather Rain and action type
\* Encounter; the plan has the Tense+Rain outline; the fallback text is the
\* MASP-rain opening, the six-line exchange and the rain closing; and Planner,
\* Writer and Editor each return non-empty text without raising.
C16_Scenario1 ==
    brief = Scenario1 =>
        /\ \A i \in CallsOf("_extract_elements") :
              PlannerFeatureSet(calls[i].result) = Scenario1Features
        /\ \A i \in CallsOf("_analyze_brief") :
              WriterFeatureSet(calls[i].result) = Scenario1Features
        /\ \A i \in CallsOf("plan_scene") :
              /\ calls[i].result # ""
              /\ Section(PlanLines(calls[i].result), "### 3. PROGRESSÃO NARRATIVA")
                    = OutlineTenseRain
        /\ \A i \in CallsOf("write_scene") :
              /\ write_state = "returned"
              /\ calls[i].result # ""
              /\ Fragments(calls[i].result)
                    = <<OpeningMaspRain>> \o Bodies(ExchangeIvanaManoel)
                          \o Bodies(<<ClosingRain>>)
        /\ \A i \in CallsOf("edit_scene") : calls[i].result # ""
        /\ pc = "tested" => Len(calls) = 5

\* The test ran to its end for the brief of scenario 1, the Writer in fallback
\* mode.
C16_Witness ==
    /\ brief = Scenario1
    /\ pc = "tested"
    /\ writer.use_fallback
    /\ requests = <<>>
    /\ final_content # ""
    /\ calls[5].op = "edit_scene"
    /\ calls[5].args[1] = scene_content

\* The feature set with every field absent.
NoFeatures ==
    [characters |-> {}, setting |-> "absent", mood |-> "absent", timeOfDay |-> "absent",
     weather |-> "absent", actionType |-> "absent"]

\* C17: the empty brief has every feature absent, and for the empty brief as for
\* every other brief plan_scene, the fallback write_scene and edit_scene applied
\* to that draft each return non-empty text without error.
C17_EmptyBriefAndTotality ==
    /\ brief = "" =>
          /\ \A i \in CallsOf("_extract_elements") :
                PlannerFeatureSet(calls[i].result) = NoFeatures
          /\ \A i \in CallsOf("_analyze_brief") :
                WriterFeatureSet(calls[i].result) = NoFeatures
    /\ \A i \in CallsOf("plan_scene") \cup CallsOf("write_scene") \cup CallsOf("edit_scene") :
          calls[i].result # ""
    /\ write_state # "raised"
    /\ pc = "test_writer" => CallsOf("plan_scene") # {}
    /\ pc = "test_editor" => CallsOf("write_scene") # {}
    /\ pc = "tested" =>
          /\ CallsOf("edit_scene") # {}
          /\ \A i \in CallsOf("edit_scene") : calls[i].args[1] = scene_content

\* The three agents ran for the empty brief, the Writer in fallback mode, and
\* each returned text.
C17_Witness ==
    /\ brief = ""
    /\ pc = "tested"
    /\ writer.use_fallback
    /\ scene_plan # ""
    /\ scene_content # ""
    /\ final_content # ""
    /\ PlannerFeatureSet(calls[1].result) = NoFeatures

-----------------------------------------------------------------------------
(* Claims about the Editor *)

\* C18: step 1 is idempotent: the literal corrections applied to text they
\* already corrected change nothing.
C18_StyleCorrectionsIdempotent ==
    \A i, j \in CallsOf("_apply_style_corrections") :
        calls[j].args[1] = calls[i].result => calls[j].result = calls[i].result

\* The first and the last character of a text.
FirstChar(text) == SubSeq(text, 1, 1)

LastChar(text) == SubSeq(text, Len(text), Len(text))

\* C19: the output of edit_scene has no run of three or more line breaks, and no
\* white space at its start or at its end.
C19_EditedTextNormalised ==
    \A i \in CallsOf("edit_scene") :
        /\ ~Contains(calls[i].result, "\n\n\n")
        /\ calls[i].result # ""
              => ~IsSpace(FirstChar(calls[i].result)) /\ ~IsSpace(LastChar(calls[i].result))

\* A draft with four or more line breaks in a row inside it and white space at
\* its end was edited, and text is left on both sides of the break.
C19_Witness ==
    \E i \in CallsOf("edit_scene") :
        /\ Contains(Strip(calls[i].args[1]), "\n\n\n\n")
        /\ IsSpace(LastChar(calls[i].args[1]))
        /\ Contains(calls[i].result, "\n\n")
        /\ final_content = calls[i].result

\* The two phrases _enhance_paragraph replaces, and what each replacement adds.
RainTarget == "tamborilava contra as grandes janelas"

RainEnhanced == "tamborilava incessantemente contra as grandes janelas de vidro"

SilhouetteTarget == "a silhueta familiar de Dr. Manoel"

SilhouetteEnhanced == "a silhueta inconfundível de Dr. Manoel"

RainGrowth == Len(RainEnhanced) - Len(RainTarget)

SilhouetteGrowth == Len(SilhouetteEnhanced) - Len(SilhouetteTarget)

\* How many times a phrase occurs in a text.
Occurrences(text, phrase) == Len(Split(text, phrase)) - 1

-----------------------------------------------------------------------------
(* Claims about a whole invocation *)

\* A stage of the running invocation raised.
StageRaised == CallsOf("raise") # {}

\* All three stages of the running invocation returned, in order.
AllStagesReturned ==
    /\ Len(calls) >= 3
    /\ <<calls[1].op, calls[2].op, calls[3].op>>
          = <<"plan_scene", "write_scene", "edit_scene">>

Alone(call) ==
    CASE call.op = "plan_scene" ->
            plan_scene(Planner(project_data), call.args[1])
      [] call.op = "write_scene" ->
            write_scene(Writer(project_data, FALSE), call.args[1], call.args[2],
                        NoService).content
      [] call.op = "edit_scene" ->
            edit_scene(Editor(project_data), call.args[1], call.args[2], call.args[3])

C23_ThresholdAnswerReturned ==
    (WroteInServiceMode /\ ~ServiceFailed(service)
        /\ Len(Strip(service.response)) >= MinContentLen)
        => scene_content = Strip(service.response)


\* A paragraph with each phrase enhancement applied whenever its own gate holds.
BothEnhanced(paragraph) ==
    LET rain == IF Contains(Lower(paragraph), "chuva")
                   /\ Contains(Lower(paragraph), "tamborilava")
                THEN Replace(paragraph, RainTarget, RainEnhanced)
                ELSE paragraph
    IN  IF Contains(paragraph, "Dr. Manoel") /\ Contains(paragraph, "silhueta")
        THEN Replace(rain, SilhouetteTarget, SilhouetteEnhanced)
        ELSE rain

\* The paragraphs of a text that are not whitespace only, in order.
NonBlankParagraphs(content) ==
    SelectSeq(Split(content, "\n\n"), LAMBDA para : Strip(para) # "")

\* C24: the paragraph-level pass applies each of the two phrase enhancements to a
\* paragraph whenever its own gate holds, independently of the other, so that a
\* paragraph with both gates and both target phrases gets both; whitespace-only
\* paragraphs are dropped and the others keep their order.
C24_EnhancementsIndependent ==
    \A c \in CallsOf("_enhance_prose") :
        \A kept \in {NonBlankParagraphs(calls[c].args[1])} :
            calls[c].result = Join([i \in 1..Len(kept) |-> BothEnhanced(kept[i])], "\n\n")


\* The requests of one call, in order: the probe, the warm-up, the scene prompt.
ProbeRequest == "GET /api/tags"

WarmupRequest == "POST /api/generate warmup"

PromptRequest == "POST /api/generate"

\* The probe and the warm-up of the call succeeded.
ModelReady(svc) == svc.tags = "ok" /\ ModelListed(svc) /\ svc.warmup = "ok"

\* C25: within one write_scene call in generation-service mode the scene prompt
\* is sent at most once and only after the probe and warm-up of that call have
\* succeeded, and after a timeout, an error status, a short response or any other
\* failure nothing further is sent: the requests stop at the one that failed.
C25_PromptSentOnceNoRetry ==
    WroteInServiceMode =>
        /\ Cardinality({i \in 1..Len(requests) : requests[i] = PromptRequest}) <= 1
        /\ (\E i \in 1..Len(requests) : requests[i] = PromptRequest)
              => /\ ModelReady(service)
                 /\ requests = <<ProbeRequest, WarmupRequest, PromptRequest>>
        /\ requests = CASE service.tags # "ok" \/ ~ModelListed(service) -> <<ProbeRequest>>
                        [] ModelReady(service)
                             -> <<ProbeRequest, WarmupRequest, PromptRequest>>
                        [] OTHER -> <<ProbeRequest, WarmupRequest>>

\* The prompt request timed out after a successful warm-up, and it was the last
\* request of the call.
C25_Witness ==
    /\ WroteInServiceMode
    /\ ModelReady(service)
    /\ service.generate = "timeout"
    /\ requests = <<ProbeRequest, WarmupRequest, PromptRequest>>
    /\ scene_content # ""


\* The last generate call logged.
LastGenerate == calls[Len(calls)]

\* C26: LLMEngine.generate never raises and never returns a short result: for
\* every prompt and every behaviour of the service it returns a string whose
\* trimmed length is greater than 50 characters, the service's trimmed text when
\* the service answered with one that long and the canned response built by
\* _fallback_response otherwise.
C26_GenerateTotal ==
    pc \in {"generated", "regenerated"} =>
        /\ write_state = "returned"
        /\ Len(Strip(LastGenerate.result)) > 50
        /\ LastGenerate.result =
              IF ~ServiceFailed(service) /\ Len(Strip(service.response)) > 50
              THEN Strip(service.response)
              ELSE fallback_response(LLMEngine, LastGenerate.args[1])

\* The service answered a prompt without the brief marker with a text of exactly
\* 50 characters, and generate returned its canned response.
C26_Witness ==
    /\ pc = "generated"
    /\ ~ServiceFailed(service)
    /\ Len(Strip(service.response)) = 50
    /\ ~Contains(LastGenerate.args[1], "BRIEF DA CENA:")
    /\ Contains(LastGenerate.result, "**Cena baseada no brief:** cena não especificada\n\n")
    /\ write_state = "returned"

====
